---- MODULE Spec2Model ----
(***************************************************************************)
(* Model of the zk-passport-rtc negotiation core:                          *)
(*   - WebRTCConnection (packages/ts-firebase-rtc/src/core)                *)
(*   - FirebaseSignalingClient (listed in README.md of the repository)     *)
(*   - ProofSession (zk-passport-client core)                              *)
(* One connection object is modelled.  It is either used stand-alone (the  *)
(* caller drives createOffer / createAnswer / close) or owned by a         *)
(* ProofSession (the session drives createOffer and close and listens to   *)
(* the connection's events).                                               *)
(*                                                                         *)
(* Every `await` of the code is a point where the model may interleave     *)
(* other handlers; the code between two awaits is one atomic action.       *)
(* Listeners run synchronously inside emit, so the effect of a listener is *)
(* part of the action that emits.                                          *)
(*                                                                         *)
(* Transport (RTCPeerConnection) semantics used: an operation pending on a *)
(* transport that gets closed never settles (the W3C algorithm aborts its  *)
(* final steps when [[IsClosed]] is true); a failed setRemoteDescription   *)
(* leaves the signaling state unchanged; addIceCandidate rejects while no  *)
(* remote description is set.                                              *)
(***************************************************************************)
EXTENDS Integers, Sequences, FiniteSets, TLC

\* ---------------------------------------------------------------- bounds
MaxCalls == 1        \* createOffer / createAnswer calls made on the connection
MaxClose == 2        \* close() calls made on the connection
MaxLocalIce == 1     \* local ICE candidates the transport generates
MaxRemoteIce == 2    \* candidate records the remote peer pushes
MaxSrd == 2          \* setRemoteDescription(answer) invocations explored
MaxWaiters == 2      \* waitForTransaction() calls
MaxMsgs == 2         \* data-channel messages received
MaxSends == 2        \* send() calls made on the connection
MaxSessions == 2     \* ProofSessions one ZkPassportClient creates
MaxSubs == 2         \* subscriptions one FirebaseSignalingClient creates
MaxTime == 4         \* clock readings, the first one being 1
MaxReuse == 2        \* createOffer calls on a connection that is closed and used again
MaxOfferWrites == 2  \* writes of the offer node the Android answerer may see
MaxReplay == 2       \* notifications of the offer/ice list the Android answerer handles
MaxConcurrent == 2   \* createOffer / createAnswer calls in progress at once on a connection
MaxYear == 99        \* the largest YY of an encoded date
MaxMonth == 12       \* the largest MM of an encoded date, 0 as in the zero date
MaxDay == 31         \* the largest DD of an encoded date, 0 as in the zero date

Kinds == {"answer", "ice"}
Keys == 1..MaxRemoteIce
CallIds == 1..MaxCalls
SubIds == 1..MaxReuse
ProofTypes == {"registration", "age_check", "disclosure"}

VARIABLES
  hasSession,   \* TRUE: the connection is owned by a ProofSession
  sessType,     \* ProofSessionOptions.type
  conn,         \* fields of the WebRTCConnection
  pc,           \* the RTCPeerConnection / RTCDataChannel the connection created last
  call,         \* position of the createOffer / createAnswer call; cut: close() was
                \* called while it is suspended
  cl,           \* close() calls: pending, made, cleanup requests
  sig,          \* fields of the FirebaseSignalingClient
  subs,         \* the realtime subscriptions created through the client
  store,        \* the signaling store below signals/{peerId}
  sess,         \* fields of the ProofSession
  builds,       \* buildTransaction calls in flight
  msgs,         \* number of data-channel messages received so far
  bt,           \* one buildTransaction call taken alone: its inputs and its outcome
  wire,         \* the data channel seen from outside: send() calls, frames, the peer's events
  client,       \* a ZkPassportClient: its signaling client, its sessions, its active set
  fs,           \* a FirebaseSignalingClient used directly, its store and the clock
  an,           \* the Android answerer (WebRTCManager) and the store below its peerId
  cc,           \* a WebRTCConnection whose caller does not wait for a call to settle
  dt            \* one passport date taken through encodePassportDate / decodePassportDate

vars == <<hasSession, sessType, conn, pc, call, cl, sig, subs, store, sess, builds, msgs, bt,
          wire, client, fs, an, cc, dt>>

NoError == [code |-> "none", id |-> 0]

\* ------------------------------------------------------------ ProofSession

\* Promise semantics: resolve / reject act on a pending promise only.
SettlePromise(p, st, v) ==
  IF p.st = "pending" THEN [st |-> st, val |-> v] ELSE p

\* ProofSession.setState
SessSetState(s, st) ==
  IF s.state = st THEN s ELSE [s EXCEPT !.state = st]

\* ProofSession.handleError
HandleError(s, e) ==
  LET s1 == SessSetState([s EXCEPT !.error = e], "failed")
  IN IF s1.txResolver # 0
       THEN [s1 EXCEPT !.prom[s1.txResolver] = SettlePromise(@, "rejected", e)]
       ELSE s1

\* ProofSession.initialize after its await of connection.createOffer:
\* setState('waiting_for_mobile') and emit('mobile:connected'); announced
\* records that the event was emitted
InitializeResumes(s) ==
  [SessSetState(s, "waiting_for_mobile") EXCEPT !.announced = TRUE]

\* the tail of ProofSession.handleMobileMessage after a successful build
TransactionReady(s, tx) ==
  LET s1 == SessSetState(s, "transaction_ready")
  IN IF s1.txResolver # 0
       THEN [s1 EXCEPT !.prom[s1.txResolver] = SettlePromise(@, "resolved", tx)]
       ELSE s1

NewPromise(s) == 1 + Cardinality({i \in 1..MaxWaiters : s.prom[i].st # "none"})

\* mutant of WaitForTransactionCall: forgets the cached promise
WaitForTransactionFresh(s) ==
  LET p == NewPromise(s)
  IN [s EXCEPT !.txPromise = p, !.txResolver = p,
               !.prom[p] = [st |-> "pending", val |-> NoError],
               !.callers = Append(@, p)]

\* ProofSession.waitForTransaction
WaitForTransactionCall(s) ==
  IF s.txPromise # 0
    THEN [s EXCEPT !.callers = Append(@, s.txPromise)]
    ELSE LET p == NewPromise(s)
         IN [s EXCEPT !.txPromise = p, !.txResolver = p,
                      !.prom[p] = [st |-> "pending", val |-> NoError],
                      !.callers = Append(@, p)]

\* the 'state:change' listener ProofSession registers on its connection
OnConnStateChange(s, st) ==
  IF st = "connected" THEN SessSetState(s, "mobile_connected")
  ELSE IF st \in {"disconnected", "failed"}
    THEN HandleError(s, [code |-> "Connection " \o st, id |-> 0])
  ELSE s

\* -------------------------------------------------------- WebRTCConnection
\* The operators below work on w = [conn |-> .., sess |-> ..] so that the
\* listeners of the session run inside the emitting step.

\* WebRTCConnection.setState
ConnSetState(w, st) ==
  IF w.conn.state = st THEN w
  ELSE LET w1 == [w EXCEPT !.conn.state = st]
       IN IF hasSession THEN [w1 EXCEPT !.sess = OnConnStateChange(@, st)] ELSE w1

\* createError + emit('error', ..) of the connection
ConnEmitError(w, code) ==
  LET e == [code |-> code, id |-> w.conn.errors + 1]
      w1 == [w EXCEPT !.conn.errors = @ + 1, !.conn.lastError = e]
  IN IF hasSession THEN [w1 EXCEPT !.sess = HandleError(@, e)] ELSE w1

World == [conn |-> conn, sess |-> sess]

\* mutant of CatchBlock: the error is emitted but the state is left alone
CatchBlockNoState(w, code) == ConnEmitError(w, code)

\* the catch block of createOffer / createAnswer
CatchBlock(w, code) == ConnEmitError(ConnSetState(w, "failed"), code)

CatchCode ==
  IF conn.role = "offerer" THEN "OFFER_CREATION_FAILED" ELSE "ANSWER_CREATION_FAILED"

\* a freshly constructed RTCPeerConnection; dc is the readyState of its data channel
NewPc(dc) ==
  [sig |-> "stable", local |-> FALSE, remote |-> FALSE, gather |-> "new",
   cs |-> "new", dc |-> dc, srdPending |-> 0, srdCalls |-> 0, srdOk |-> 0,
   applied |-> {}, queued |-> {}, dropped |-> {}]

Settled == {"idle", "resolved", "rejected", "returned", "abandoned"}
TransportAwaits == {"createSdp", "setLocal", "setRemote", "addIce"}


\* the values MobileProofResponse declares for the type of a message
RecognizedTypes == {"query_proof", "passport_keys"}

\* A data-channel message as ProofSession reads it: its type, whether it has
\* a data object, data.registration, data.zkPoints and data.identityKey
\* (which is read only when data.registration is absent).
NoData == [type |-> "query_proof", data |-> FALSE, reg |-> FALSE, zk |-> FALSE, idk |-> FALSE]

\* a message of a type the protocol does not know: { type: 'ping' }
Unrecognized ==
  {[type |-> "ping", data |-> FALSE, reg |-> FALSE, zk |-> FALSE, idk |-> FALSE]}

MsgKinds ==
  {NoData} \cup
  {m \in [type : {"query_proof"}, data : {TRUE}, reg : BOOLEAN, zk : BOOLEAN, idk : BOOLEAN] :
     ~(m.reg /\ m.idk)} \cup
  Unrecognized

\* no date encoded yet; a bigint is kept as its base-16 numeral, a string as
\* its character codes, NaN as -1
NoDate == [n |-> 0, at |-> "new", enc |-> <<0>>, dec |-> 0]

NoBuild == [m |-> NoData, bad |-> "none", registered |-> FALSE, readOk |-> FALSE,
            rpcOk |-> FALSE, out |-> "none"]

\* no send() call made yet, no message event emitted yet
NoSend == [side |-> "none", m |-> "none", ret |-> FALSE, handed |-> FALSE, sent |-> FALSE,
           threw |-> FALSE, own |-> FALSE, peer |-> FALSE]
NoEvent == [id |-> 0, m |-> "none", payload |-> "none"]

\* last: the latest send() call; event: the peer's latest message event
NoWire == [peerOpen |-> FALSE, frames |-> <<>>, sends |-> 0, last |-> NoSend,
           event |-> NoEvent]

\* ------------------------------------------------------------------- Init
InitConn ==
  [state |-> "idle", hasPc |-> FALSE, hasDc |-> FALSE, role |-> "none",
   peerId |-> FALSE, answerProcessed |-> FALSE, unsubscribers |-> {},
   ice |-> 0, errors |-> 0, lastError |-> NoError]

NoTx == "none"

InitSess ==
  [state |-> "idle", error |-> NoError, peerId |-> FALSE,
   txPromise |-> 0, txResolver |-> 0,
   prom |-> [i \in 1..MaxWaiters |-> [st |-> "none", val |-> NoError]],
   callers |-> <<>>, tx |-> NoTx, announced |-> FALSE]

\* sessionTTL in clock ticks (the constructor's default is 300000 ms)
SessionTTL == 2

NoOffer == [present |-> FALSE, expiresAt |-> 0]
NoSub == [kind |-> "none", live |-> FALSE, dirty |-> FALSE]

\* A FirebaseSignalingClient and the session 'p' of its store.
\*   db      this.database is set
\*   closed  close() has been called
\*   map     this.unsubscribers: per key the subscription it holds, 0 for none
\*   sub     the onValue subscriptions created so far; dirty: a value event is
\*           due, the listener will run and call the callback
\*   offer   the stored offer; expiresAt 0 stands for an offer without the field
\*   last    the latest operation, its outcome, and whether close() preceded it
NoFs ==
  [db |-> FALSE, closed |-> FALSE, map |-> [k \in Kinds |-> 0],
   sub |-> [i \in 1..MaxSubs |-> NoSub],
   offer |-> NoOffer, answer |-> FALSE, ice |-> FALSE, now |-> 1,
   last |-> [op |-> "none", result |-> "none", closed |-> FALSE]]

\* The Android answerer: a WebRTCManager with its FirebaseSignalingManager, and
\* the store below signals/{peerId} as it sees it.
\*   started    connectToPeer created the peer connection and both listeners
\*   offer      number of writes of the offer node so far (0: absent)
\*   offerIce   keys of the records below offer/ice
\*   offerDue, iceDue   the listener on offer / offer/ice has an event to deliver
\*   iceEvents  events of the offer/ice listener handled
\*   srd, created, sent   calls of setRemoteDescription, createAnswer, sendAnswer
\*   srdPending, createPending, sendPending   those not yet settled
\*   local      setLocalDescription(answer) has succeeded
\*   gen        local candidates generated; icePending: their writes in flight
\*   answer     the answer node is present; answerIce: keys below answer/ice
\*   written    local candidates whose write has completed
\*   applied    addIceCandidate calls per offerer candidate
NoAndroid ==
  [started |-> FALSE, offer |-> 0, offerIce |-> {}, offerDue |-> FALSE, iceDue |-> FALSE,
   iceEvents |-> 0, srd |-> 0, created |-> 0, sent |-> 0,
   srdPending |-> 0, createPending |-> 0, sendPending |-> 0, local |-> FALSE,
   gen |-> 0, icePending |-> {}, answer |-> FALSE, answerIce |-> {}, written |-> {},
   applied |-> [k \in 1..MaxRemoteIce |-> 0]]

\* A WebRTCConnection on which createOffer / createAnswer are called without
\* waiting for the call before: where each call stands, whether
\* this.peerConnection is set, how many RTCPeerConnections were created and how
\* many offers or answers were published.
Callers2 == 1..MaxConcurrent

NoCalls ==
  [at |-> [i \in Callers2 |-> "idle"], role |-> [i \in Callers2 |-> "none"],
   hasPc |-> FALSE, created |-> 0, published |-> 0]

SessIds == 1..MaxSessions

\* A ProofSession of a ZkPassportClient with its connection in outline.
\*   s          the session's own fields
\*   listening  the listeners registered on it before any close(), the
\*              client's 'state:change' listener among them, are still registered
\*   init       where its initialize() call stands
\*   initOk     while init is pending: signalingClient.initialize() did not throw
\*   connState  state of its WebRTCConnection
\*   torn       connection.close() ran: channel and peer connection closed
\*   cleanup    signalingClient.cleanup(peerId) was called for it
\*   build      a buildTransaction call is awaited
\*   heardLate  one of those listeners ran for an event emitted after close()
NoSession ==
  [s |-> InitSess, listening |-> FALSE, init |-> "none", initOk |-> FALSE,
   connState |-> "idle", torn |-> FALSE, cleanup |-> FALSE, build |-> FALSE,
   heardLate |-> FALSE]

\* late: the sessions still open when signalingClient.close() was called
NoClient ==
  [sig |-> [db |-> FALSE, closes |-> 0], made |-> {}, active |-> {},
   sessions |-> [i \in SessIds |-> NoSession], closes |-> 0, late |-> {}]

\* everything around the connection object and its peer connection
InitRest ==
  /\ call = [pc |-> "idle", n |-> 0, left |-> 0, bundle |-> 0, error |-> NoError,
             cause |-> "none", initOk |-> FALSE, cut |-> FALSE]
  /\ cl = [calls |-> 0, pending |-> 0, cleanups |-> 0, done |-> 0, threw |-> 0]
  /\ sig = [db |-> FALSE, map |-> [k \in Kinds |-> 0]]
  /\ subs = [n \in SubIds |->
              [live |-> {}, processed |-> {}, seen |-> {}, delivered |-> {}, dup |-> {}]]
  /\ store = [offer |-> FALSE, offerIce |-> 0, answer |-> FALSE, ice |-> {}, nextKey |-> 1]
  /\ sess = InitSess
  /\ builds = {}
  /\ msgs = 0
  /\ wire = NoWire
  /\ client = NoClient
  /\ fs = NoFs
  /\ an = NoAndroid
  /\ cc = NoCalls

InitCommon ==
  /\ conn = InitConn
  /\ pc = NewPc("none")
  /\ InitRest

\* a stand-alone WebRTCConnection
InitConnOnly ==
  /\ hasSession = FALSE
  /\ sessType = "registration"
  /\ bt = NoBuild
  /\ dt = NoDate
  /\ InitCommon

\* a ProofSession with the connection its constructor creates
InitSession ==
  /\ hasSession = TRUE
  /\ sessType \in ProofTypes
  /\ bt = NoBuild
  /\ dt = NoDate
  /\ InitCommon

DcStates == {"none", "connecting", "open", "closing", "closed"}

\* a connection whose data channel is absent or in any readyState
InitSend ==
  /\ hasSession = FALSE
  /\ sessType = "registration"
  /\ bt = NoBuild
  /\ dt = NoDate
  /\ InitRest
  /\ \E hasDc \in BOOLEAN, st \in DcStates :
       /\ (hasDc <=> st # "none")
       /\ conn = [InitConn EXCEPT !.hasPc = hasDc, !.hasDc = hasDc]
       /\ pc = [NewPc("none") EXCEPT !.dc = st]

\* the field of data.registration that is malformed, if one is: passportKey
\* not convertible to an integer, certificatesRoot not a hex string
BadFields == {"none", "passportKey", "certificatesRoot"}

\* a ProofSession about to run buildTransaction on a message: `bad` is the
\* malformed field of its registration data, `registered` the subject's
\* registration on the chain, `readOk` whether the getSessionInfo read answers,
\* `rpcOk` whether the reads of the transaction builders answer
InitBuild ==
  /\ hasSession = TRUE
  /\ sessType \in ProofTypes
  /\ bt \in [m : MsgKinds, bad : BadFields, registered : BOOLEAN, readOk : BOOLEAN,
            rpcOk : BOOLEAN, out : {"none"}]
  /\ ~bt.m.reg => bt.bad = "none"
  /\ dt = NoDate
  /\ InitCommon

\* ------------------------------------------- createOffer / createAnswer
\* FirebaseSignalingClient.initialize: its body has no await, so it runs
\* inside the call; on success the database is set, on failure a database set
\* by an earlier initialize() stays
SignalingInitialize(sg, ok) == [sg EXCEPT !.db = @ \/ ok]

\* lines 84-98 / 166-179: the synchronous head of createOffer and createAnswer
StartCall(w, role) ==
  LET w1 == ConnSetState(w, "initializing")
  IN [w1 EXCEPT !.conn.role = role, !.conn.peerId = TRUE,
                !.conn.answerProcessed =
                   IF role = "offerer" THEN FALSE ELSE w1.conn.answerProcessed]

\* a caller invokes createOffer(peerId) on a stand-alone connection, of at
\* most `limit` calls made on it
CreateOffer(limit) ==
  /\ ~hasSession
  /\ call.pc \in Settled
  /\ call.n < limit
  /\ IF conn.hasPc
       THEN /\ call' = [call EXCEPT !.pc = "returned", !.n = @ + 1]
            /\ UNCHANGED <<conn, sess, sig>>
       ELSE LET w == StartCall(World, "offerer")
            IN /\ conn' = w.conn
               /\ sess' = w.sess
               /\ \E ok \in BOOLEAN :
                    /\ sig' = SignalingInitialize(sig, ok)
                    /\ call' = [call EXCEPT !.pc = "init", !.n = @ + 1, !.error = NoError,
                                             !.cause = "none", !.initOk = ok,
                                             !.cut = FALSE]
  /\ UNCHANGED <<dt, cc, an, fs, client, wire, bt, hasSession, sessType, pc, cl, subs, store, builds, msgs>>

CreateOfferCall == CreateOffer(MaxCalls)

\* a caller invokes createAnswer(peerId) on a stand-alone connection
CreateAnswerCall ==
  /\ ~hasSession
  /\ call.pc \in Settled
  /\ call.n < MaxCalls
  /\ IF conn.hasPc
       THEN /\ call' = [call EXCEPT !.pc = "returned", !.n = @ + 1]
            /\ UNCHANGED <<conn, sess, sig>>
       ELSE LET w == StartCall(World, "answerer")
            IN /\ conn' = w.conn
               /\ sess' = w.sess
               /\ \E ok \in BOOLEAN :
                    /\ sig' = SignalingInitialize(sig, ok)
                    /\ call' = [call EXCEPT !.pc = "init", !.n = @ + 1, !.error = NoError,
                                             !.cause = "none", !.initOk = ok,
                                             !.cut = FALSE]
  /\ UNCHANGED <<dt, cc, an, fs, client, wire, bt, hasSession, sessType, pc, cl, subs, store, builds, msgs>>

\* ProofSession.initialize up to its await of connection.createOffer
SessInitialize ==
  /\ hasSession
  /\ sess.state = "idle"
  /\ call.n = 0
  /\ LET s1 == [SessSetState(sess, "initializing") EXCEPT !.peerId = TRUE]
         w == StartCall([conn |-> conn, sess |-> s1], "offerer")
     IN /\ conn' = w.conn
        /\ sess' = w.sess
  /\ \E ok \in BOOLEAN :
       /\ sig' = SignalingInitialize(sig, ok)
       /\ call' = [call EXCEPT !.pc = "init", !.n = @ + 1, !.initOk = ok, !.cut = FALSE]
  /\ UNCHANGED <<dt, cc, an, fs, client, wire, bt, hasSession, sessType, pc, cl, subs, store, builds, msgs>>

\* The call throws: catch block of createOffer / createAnswer, then, for a
\* session, the catch block of ProofSession.initialize.  `cause` is the error
\* caught, which the WebRTCError carries as its details.
CallFailsWith(cause) ==
  LET w1 == CatchBlock(World, CatchCode)
      e == w1.conn.lastError
      w2 == IF hasSession THEN [w1 EXCEPT !.sess = HandleError(@, e)] ELSE w1
  IN /\ conn' = w2.conn
     /\ sess' = w2.sess
     /\ call' = [call EXCEPT !.pc = "rejected", !.error = e, !.cause = cause, !.cut = FALSE]

CallFails == CallFailsWith("StepFailed")

\* the await of signalingClient.initialize() resumes
CallInitDone(ok) ==
  /\ call.pc = "init"
  /\ call.initOk = ok
  /\   IF ~ok
         THEN /\ CallFails
              /\ UNCHANGED <<pc, sig>>
         ELSE /\ UNCHANGED sig
              /\ IF conn.role = "offerer"
                   THEN /\ conn' = [conn EXCEPT !.hasPc = TRUE, !.hasDc = TRUE]
                        /\ pc' = NewPc("connecting")
                        /\ call' = [call EXCEPT !.pc = "createSdp"]
                   ELSE /\ call' = [call EXCEPT !.pc = "getOffer"]
                        /\ UNCHANGED <<conn, pc>>
              /\ UNCHANGED sess
  /\ UNCHANGED <<dt, cc, an, fs, client, wire, bt, hasSession, sessType, cl, subs, store, builds, msgs>>

\* mutant of GetOfferResult: a missing or expired offer is not detected
GetOfferResultAny(readOk, exists, expired) ==
  IF ~readOk THEN "ReadFailed" ELSE "ok"

\* FirebaseSignalingClient.getOffer on an initialized client: "ok" or the
\* error it throws.  readOk: the get() of the offer node succeeds; exists:
\* snapshot.exists(); expired: data.expiresAt && Date.now() > data.expiresAt
GetOfferResult(readOk, exists, expired) ==
  IF ~readOk THEN "ReadFailed"
  ELSE IF ~exists THEN "NotFound"
  ELSE IF expired THEN "Expired"
  ELSE "ok"

GetOfferOutcomes == {"fresh", "expired", "error"}

\* signalingClient.getOffer(peerId) settles (answerer); o says whether the
\* read works and whether a stored offer is past its expiry
CallGetOfferDone(o) ==
  /\ call.pc = "getOffer"
  /\ LET r == GetOfferResult(o # "error", store.offer, o = "expired")
     IN IF r = "ok"
          THEN /\ conn' = [conn EXCEPT !.hasPc = TRUE]
               /\ pc' = NewPc("none")
               /\ call' = [call EXCEPT !.pc = "setRemote", !.left = store.offerIce]
               /\ UNCHANGED sess
          ELSE /\ CallFailsWith(r)
               /\ UNCHANGED pc
  /\ UNCHANGED <<dt, cc, an, fs, client, wire, bt, hasSession, sessType, cl, sig, subs, store, builds, msgs>>

\* peerConnection.setRemoteDescription(offer) settles (answerer)
CallSetRemoteDone(ok) ==
  /\ call.pc = "setRemote"
  /\   IF ok
         THEN /\ pc' = [pc EXCEPT !.sig = "have-remote-offer", !.remote = TRUE]
              /\ call' = [call EXCEPT !.pc = IF call.left > 0 THEN "addIce" ELSE "createSdp"]
              /\ UNCHANGED <<conn, sess>>
         ELSE /\ CallFails
              /\ UNCHANGED pc
  /\ UNCHANGED <<dt, cc, an, fs, client, wire, bt, hasSession, sessType, cl, sig, subs, store, builds, msgs>>

\* one peerConnection.addIceCandidate of the offer's bundled candidates settles
CallAddIceDone(ok) ==
  /\ call.pc = "addIce"
  /\   IF ok
         THEN /\ call' = [call EXCEPT !.left = @ - 1,
                                      !.pc = IF call.left > 1 THEN "addIce" ELSE "createSdp"]
              /\ UNCHANGED <<conn, sess>>
         ELSE CallFails
  /\ UNCHANGED <<dt, cc, an, fs, client, wire, bt, hasSession, sessType, pc, cl, sig, subs, store, builds, msgs>>

\* peerConnection.createOffer() / createAnswer() settles
CallCreateSdpDone(ok) ==
  /\ call.pc = "createSdp"
  /\   IF ok
         THEN /\ call' = [call EXCEPT !.pc = "setLocal"]
              /\ UNCHANGED <<conn, sess>>
         ELSE CallFails
  /\ UNCHANGED <<dt, cc, an, fs, client, wire, bt, hasSession, sessType, pc, cl, sig, subs, store, builds, msgs>>

\* peerConnection.setLocalDescription settles; on success the state becomes
\* connecting and the call waits for ICE gathering
CallSetLocalDone(ok) ==
  /\ call.pc = "setLocal"
  /\   IF ok
         THEN /\ pc' = [pc EXCEPT !.local = TRUE, !.gather = "gathering",
                          !.sig = IF conn.role = "offerer" THEN "have-local-offer" ELSE "stable"]
              /\ LET w == ConnSetState(World, "connecting")
                 IN conn' = w.conn /\ sess' = w.sess
              /\ call' = [call EXCEPT !.pc = "gather"]
         ELSE /\ CallFails
              /\ UNCHANGED pc
  /\ UNCHANGED <<dt, cc, an, fs, client, wire, bt, hasSession, sessType, cl, sig, subs, store, builds, msgs>>

\* mutant of Bundle: the offer is published without the collected candidates
BundleNone(c) == 0

\* ice: this.serializeIceCandidates(this.iceCandidates), lines 133 and 223:
\* the candidates collected so far, each one serialized
Bundle(c) == c.ice

\* the continuation of createOffer / createAnswer after waitForIceGathering:
\* reads this.peerConnection.localDescription and starts the publish
GatherResume ==
  IF conn.hasPc
    THEN /\ call' = [call EXCEPT !.pc = "publish", !.bundle = Bundle(conn)]
         /\ UNCHANGED <<conn, sess>>
    ELSE CallFails

\* onicecandidate with a candidate
LocalIceCandidate ==
  /\ conn.hasPc
  /\ pc.gather = "gathering"
  /\ conn.ice < MaxLocalIce
  /\ conn' = [conn EXCEPT !.ice = @ + 1]
  /\ UNCHANGED <<dt, cc, an, fs, client, wire, bt, hasSession, sessType, pc, call, cl, sig, subs, store, sess, builds, msgs>>

\* icegatheringstatechange to complete
GatherComplete ==
  /\ conn.hasPc
  /\ pc.gather = "gathering"
  /\ pc' = [pc EXCEPT !.gather = "complete"]
  /\ IF call.pc = "gather" THEN GatherResume ELSE UNCHANGED <<conn, sess, call>>
  /\ UNCHANGED <<dt, cc, an, fs, client, wire, bt, hasSession, sessType, cl, sig, subs, store, builds, msgs>>

\* the iceGatheringTimeout timer of waitForIceGathering fires
IceGatheringTimeout ==
  /\ call.pc = "gather"
  /\ GatherResume
  /\ UNCHANGED <<dt, cc, an, fs, client, wire, bt, hasSession, sessType, pc, cl, sig, subs, store, builds, msgs>>

\* setupAnswerListener + setupRemoteIceCandidateListener: onAnswer and
\* onRemoteIceCandidate of the signaling client, and the push of both unsubscribers
RegisterListeners(n) ==
  /\ subs' = [subs EXCEPT ![n].live = Kinds]
  /\ sig' = [sig EXCEPT !.map = [k \in Kinds |-> n]]

\* signalingClient.createOffer / createAnswer settles
CallPublishDone(ok) ==
  /\ call.pc = "publish"
  /\   IF ~ok
         THEN /\ CallFails
              /\ UNCHANGED <<sig, subs, store>>
         ELSE IF conn.role = "offerer"
           THEN /\ store' = [store EXCEPT !.offer = TRUE, !.offerIce = call.bundle]
                /\ RegisterListeners(call.n)
                /\ conn' = [conn EXCEPT !.unsubscribers = @ \cup {<<call.n, k>> : k \in Kinds}]
                /\ sess' = IF hasSession THEN InitializeResumes(sess) ELSE sess
                /\ call' = [call EXCEPT !.pc = "resolved", !.cut = FALSE]
           ELSE /\ store' = [store EXCEPT !.answer = TRUE]
                /\ call' = [call EXCEPT !.pc = "resolved", !.cut = FALSE]
                /\ UNCHANGED <<conn, sess, sig, subs>>
  /\ UNCHANGED <<dt, cc, an, fs, client, wire, bt, hasSession, sessType, pc, cl, builds, msgs>>


\* ----------------------------------------------------- answer subscription
\* mutant of AnswerLatch: the latch is not taken before the asynchronous apply
AnswerLatchLate(c) == c

\* line 483: this.answerProcessed = true, before the await
AnswerLatch(c) == [c EXCEPT !.answerProcessed = TRUE]

\* The callback setupAnswerListener registers, up to its await.  `present` is
\* whether the notification carries an answer.  Returns the connection and the
\* transport after the synchronous part.
AnswerCallback(c, p, present) ==
  IF ~present \/ c.answerProcessed
    THEN [conn |-> c, pc |-> p]
    ELSE IF ~(c.hasPc /\ p.sig = "have-local-offer")
      THEN [conn |-> [AnswerLatch(c) EXCEPT !.answerProcessed = FALSE], pc |-> p]
      ELSE [conn |-> AnswerLatch(c),
            pc |-> [p EXCEPT !.srdPending = @ + 1, !.srdCalls = @ + 1]]

\* the store notifies subscription n of the value at answer/sdp
AnswerNotify(n) ==
  /\ "answer" \in subs[n].live
  /\ pc.srdCalls < MaxSrd
  /\ LET r == AnswerCallback(conn, pc, store.answer)
     IN /\ conn' = r.conn
        /\ pc' = r.pc
  /\ UNCHANGED <<dt, cc, an, fs, client, wire, bt, hasSession, sessType, call, cl, sig, subs, store, sess, builds, msgs>>

\* setRemoteDescription(answer) settles: the rest of the answer callback
SrdDone(ok) ==
  /\ conn.hasPc
  /\ pc.srdPending > 0
  /\   IF ok /\ pc.sig = "have-local-offer"
         THEN /\ pc' = [pc EXCEPT !.srdPending = @ - 1, !.srdOk = @ + 1,
                                  !.sig = "stable", !.remote = TRUE,
                                  !.applied = @ \cup pc.queued, !.queued = {}]
              /\ UNCHANGED <<conn, sess>>
         ELSE /\ pc' = IF pc.srdPending = 1
                         THEN [pc EXCEPT !.srdPending = 0,
                                         !.dropped = @ \cup pc.queued, !.queued = {}]
                         ELSE [pc EXCEPT !.srdPending = @ - 1]
              /\ LET w == ConnEmitError([World EXCEPT !.conn.answerProcessed = FALSE],
                                        "SIGNALING_FAILED")
                 IN conn' = w.conn /\ sess' = w.sess
  /\ UNCHANGED <<dt, cc, an, fs, client, wire, bt, hasSession, sessType, call, cl, sig, subs, store, builds, msgs>>

\* ------------------------------------------------------- ICE subscription
\* mutant of NewCandidates: no deduplication
NewCandidatesAll(processed, snapshot) == snapshot

\* onRemoteIceCandidate: the keys of the snapshot not yet in processedCandidates
NewCandidates(processed, snapshot) == snapshot \ processed

\* the callback setupRemoteIceCandidateListener registers, for a set of records:
\* addIceCandidate runs on the transport's operations chain, so behind a
\* pending setRemoteDescription it waits for it (queued); with no remote
\* description and none pending it rejects, and the catch only logs (dropped)
ApplyCandidates(c, p, ks) ==
  IF ~c.hasPc THEN p
  ELSE IF p.remote THEN [p EXCEPT !.applied = @ \cup ks]
  ELSE IF p.srdPending > 0 THEN [p EXCEPT !.queued = @ \cup ks]
  ELSE [p EXCEPT !.dropped = @ \cup ks]

\* the store notifies subscription n of the list at answer/ice
IceNotify(n) ==
  /\ "ice" \in subs[n].live
  /\ store.ice # {}
  /\ LET new == NewCandidates(subs[n].processed, store.ice)
     IN /\ subs' = [subs EXCEPT ![n].processed = @ \cup new,
                                ![n].seen = @ \cup store.ice,
                                ![n].dup = @ \cup (new \cap subs[n].delivered),
                                ![n].delivered = @ \cup new]
        /\ pc' = ApplyCandidates(conn, pc, new)
  /\ UNCHANGED <<dt, cc, an, fs, client, wire, bt, hasSession, sessType, conn, call, cl, sig, store, sess, builds, msgs>>

\* ----------------------------------------------------------- remote peer
\* the remote offerer publishes its offer (the connection will answer)
RemoteOffer ==
  /\ ~hasSession
  /\ conn.role # "offerer"
  /\ ~store.offer
  /\ \E i \in 0..1 : store' = [store EXCEPT !.offer = TRUE, !.offerIce = i]
  /\ UNCHANGED <<dt, cc, an, fs, client, wire, bt, hasSession, sessType, conn, pc, call, cl, sig, subs, sess, builds, msgs>>

\* the remote answerer publishes its answer
RemoteAnswer ==
  /\ conn.role = "offerer"
  /\ store.offer
  /\ ~store.answer
  /\ store' = [store EXCEPT !.answer = TRUE]
  /\ UNCHANGED <<dt, cc, an, fs, client, wire, bt, hasSession, sessType, conn, pc, call, cl, sig, subs, sess, builds, msgs>>

\* the remote answerer pushes a candidate record under answer/ice
RemoteAddIce ==
  /\ conn.role = "offerer"
  /\ store.answer
  /\ store.nextKey <= MaxRemoteIce
  /\ store' = [store EXCEPT !.ice = @ \cup {store.nextKey}, !.nextKey = @ + 1]
  /\ UNCHANGED <<dt, cc, an, fs, client, wire, bt, hasSession, sessType, conn, pc, call, cl, sig, subs, sess, builds, msgs>>

\* ------------------------------------------------------- transport events
Negotiated == conn.hasPc /\ pc.local /\ pc.remote /\ pc.sig = "stable"

\* onconnectionstatechange with connectionState = st
TransportState(st) ==
  /\ Negotiated
  /\ \/ st = "connected" /\ pc.cs \in {"new", "disconnected"}
     \/ st = "disconnected" /\ pc.cs = "connected"
     \/ st = "failed" /\ pc.cs \in {"new", "disconnected"}
  /\ pc' = [pc EXCEPT !.cs = st]
  /\ LET w == ConnSetState(World, st)
     IN conn' = w.conn /\ sess' = w.sess
  /\ UNCHANGED <<dt, cc, an, fs, client, wire, bt, hasSession, sessType, call, cl, sig, subs, store, builds, msgs>>

\* ondatachannel (answerer)
DataChannelReceived ==
  /\ Negotiated
  /\ conn.role = "answerer"
  /\ pc.cs = "connected"
  /\ pc.dc = "none"
  /\ pc' = [pc EXCEPT !.dc = "connecting"]
  /\ conn' = [conn EXCEPT !.hasDc = TRUE]
  /\ UNCHANGED <<dt, cc, an, fs, client, wire, bt, hasSession, sessType, call, cl, sig, subs, store, sess, builds, msgs>>

\* channel.onopen
DataChannelOpen ==
  /\ Negotiated
  /\ pc.cs = "connected"
  /\ pc.dc = "connecting"
  /\ pc' = [pc EXCEPT !.dc = "open"]
  /\ LET w == ConnSetState(World, "connected")
     IN conn' = w.conn /\ sess' = w.sess
  /\ UNCHANGED <<dt, cc, an, fs, client, wire, bt, hasSession, sessType, call, cl, sig, subs, store, builds, msgs>>

\* channel.onerror: the channel fails and closes
DataChannelError ==
  /\ conn.hasPc
  /\ pc.dc = "open"
  /\ pc' = [pc EXCEPT !.dc = "closed"]
  /\ LET w == ConnEmitError(World, "DATA_CHANNEL_FAILED")
     IN conn' = w.conn /\ sess' = w.sess
  /\ UNCHANGED <<dt, cc, an, fs, client, wire, bt, hasSession, sessType, call, cl, sig, subs, store, builds, msgs>>


\* ------------------------------------------- messages and buildTransaction
Err(code) == [code |-> code, id |-> 0]

\* mutant of BuildSync: the session type is not consulted
BuildSyncNoType(type, m) ==
  IF ~m.data THEN "InvalidMessage"
  ELSE IF ~m.reg /\ ~m.idk THEN "InvalidMessage"
  ELSE "pending"

\* buildTransaction up to its first await (lines 225-243, 279-293): the shape
\* it returns, the error it throws, or "pending" when it awaits isUserRegistered
BuildSync(type, m) ==
  IF ~m.data THEN "InvalidMessage"
  ELSE IF type = "registration"
    THEN IF m.reg THEN "registration" ELSE "RegistrationMissing"
  ELSE IF ~m.reg /\ ~m.idk THEN "InvalidMessage"
  ELSE "pending"

\* mutant of BuildAsync: the unregistered branch submits the query proof alone
BuildAsyncQueryOnly(m, registered, rpcOk) ==
  IF ~registered /\ ~m.reg THEN "RegistrationMissing"
  ELSE IF ~rpcOk THEN "RpcError"
  ELSE IF ~m.zk THEN "InvalidMessage"
  ELSE "query"

\* buildTransaction after isUserRegistered returned `registered` (lines 245-273);
\* rpcOk: the block read of the contract client succeeds
BuildAsync(m, registered, rpcOk) ==
  IF ~registered /\ ~m.reg THEN "RegistrationMissing"
  ELSE IF ~rpcOk THEN "RpcError"
  ELSE IF ~m.zk THEN "InvalidMessage"
  ELSE IF registered THEN "query" ELSE "combined"

Shapes == {"registration", "query", "combined"}

\* ContractClient.isUserRegistered: the catch turns a failed read into false
IsUserRegistered(onChain, readOk) == readOk /\ onChain

\* buildTransaction as a whole, for a message that passed the data check of
\* handleMobileMessage or failed it
BuildTransaction(type, m, registered, rpcOk) ==
  LET o == BuildSync(type, m)
  IN IF o = "pending" THEN BuildAsync(m, registered, rpcOk) ELSE o

\* the encoders of the transaction builders on the registration data: the
\* registration-only builder encodes certificatesRoot, identityKey, dgCommit,
\* passport and zkPoints, the combined builder passportKey as well, the
\* query-only builder none of them; an encoder throws on a malformed field
Encoded(o, bad) ==
  IF o = "registration"
    THEN IF bad = "certificatesRoot" THEN "InvalidMessage" ELSE o
  ELSE IF o = "combined"
    THEN IF bad # "none" THEN "InvalidMessage" ELSE o
  ELSE o

\* buildTransaction runs to completion on the inputs drawn initially
BuildTransactionCall ==
  /\ bt.out = "none"
  /\ bt' = [bt EXCEPT !.out =
               Encoded(BuildTransaction(sessType, bt.m,
                                        IsUserRegistered(bt.registered, bt.readOk),
                                        bt.rpcOk),
                       bt.bad)]
  /\ UNCHANGED <<dt, cc, an, fs, client, wire, hasSession, sessType, conn, pc, call, cl, sig, subs, store, sess, builds, msgs>>

\* the end of handleMobileMessage for a build outcome
FinishBuild(s, outcome) ==
  IF outcome \in Shapes
    THEN TransactionReady([s EXCEPT !.tx = outcome], outcome)
    ELSE HandleError(s, Err(outcome))

\* channel.onmessage with a message that parses; for a session,
\* handleMobileMessage up to the first await of buildTransaction
DataChannelMessage(m) ==
  /\ conn.hasPc
  /\ pc.dc = "open"
  /\ msgs < MaxMsgs
  /\ msgs' = msgs + 1
  /\ IF ~hasSession
       THEN UNCHANGED <<sess, builds>>
       ELSE LET s1 == SessSetState(sess, "proof_received")
                o == BuildSync(sessType, m)
            IN IF o = "pending"
                 THEN /\ sess' = s1
                      /\ builds' = builds \cup {m}
                 ELSE /\ sess' = FinishBuild(s1, o)
                      /\ UNCHANGED builds
  /\ UNCHANGED <<dt, cc, an, fs, client, wire, bt, hasSession, sessType, conn, pc, call, cl, sig, subs, store>>

\* isUserRegistered and the build of the query transaction settle
BuildDone(b) ==
  /\ b \in builds
  /\ builds' = builds \ {b}
  /\ \E registered \in BOOLEAN, rpcOk \in BOOLEAN :
       sess' = FinishBuild(sess, BuildAsync(b, registered, rpcOk))
  /\ UNCHANGED <<dt, cc, an, fs, client, wire, bt, hasSession, sessType, conn, pc, call, cl, sig, subs, store, msgs>>

\* ProofSession.waitForTransaction is called
WaitForTransaction ==
  /\ hasSession
  /\ Len(sess.callers) < MaxWaiters
  /\ sess' = WaitForTransactionCall(sess)
  /\ UNCHANGED <<dt, cc, an, fs, client, wire, bt, hasSession, sessType, conn, pc, call, cl, sig, subs, store, builds, msgs>>

\* ------------------------------------------------------------------- send
\* The values a caller may pass to send(): a JSON value, a value JSON.stringify
\* alters (a property that is undefined, NaN, a Date), the value undefined
\* (JSON.stringify returns undefined), and a value JSON.stringify throws on
\* (a cycle, a BigInt).
Payloads == {"json", "lossy", "undefined", "cyclic"}

\* JSON.stringify(data) at line 261: the text, or "throw"
Stringify(m) ==
  CASE m = "json" -> "text"
    [] m = "lossy" -> "altered-text"
    [] m = "undefined" -> "undefined"
    [] OTHER -> "throw"

\* JSON.parse(event.data) at line 424: the value, or "throw"
Parse(t) ==
  CASE t = "text" -> "json"
    [] t = "altered-text" -> "altered"
    [] OTHER -> "throw"

NoFrame == "none"

\* mutant of SendResult: the channel is always taken to be closed
SendResultClosed(hasDc, st, m, out) ==
  [ret |-> FALSE, handed |-> FALSE, frame |-> NoFrame, threw |-> FALSE]

\* mutant of SendResult: the readyState check is skipped
SendResultUnchecked(hasDc, st, m, out) ==
  IF Stringify(m) = "throw" \/ out = "throws"
    THEN [ret |-> FALSE, handed |-> out = "throws" /\ Stringify(m) # "throw",
          frame |-> NoFrame, threw |-> FALSE]
    ELSE [ret |-> TRUE, handed |-> TRUE, frame |-> Stringify(m), threw |-> FALSE]

\* WebRTCConnection.send: what it returns, whether dataChannel.send was
\* called, the frame the channel took and whether send() itself threw.
\* out: what dataChannel.send does when called ("ok" or "throws")
SendResult(hasDc, st, m, out) ==
  IF ~hasDc \/ st # "open"
    THEN [ret |-> FALSE, handed |-> FALSE, frame |-> NoFrame, threw |-> FALSE]
  ELSE IF Stringify(m) = "throw"
    THEN [ret |-> FALSE, handed |-> FALSE, frame |-> NoFrame, threw |-> FALSE]
  ELSE IF out = "throws"
    THEN [ret |-> FALSE, handed |-> TRUE, frame |-> NoFrame, threw |-> FALSE]
  ELSE [ret |-> TRUE, handed |-> TRUE, frame |-> Stringify(m), threw |-> FALSE]

\* WebRTCManager.sendMessage (Android) for a string message.  out: what
\* DataChannel.send does: "ok", "refused" (it returns false, which
\* sendMessage does not read) or "throws"
AndroidSendResult(hasDc, st, out) ==
  IF ~hasDc \/ st # "open"
    THEN [ret |-> FALSE, handed |-> FALSE, frame |-> NoFrame, threw |-> FALSE]
  ELSE IF out = "throws"
    THEN [ret |-> FALSE, handed |-> TRUE, frame |-> NoFrame, threw |-> FALSE]
  ELSE [ret |-> TRUE, handed |-> TRUE,
        frame |-> IF out = "ok" THEN "text" ELSE NoFrame, threw |-> FALSE]

\* what a send() call leaves behind: the record of the call and the frame
Sent(r, m, side) ==
  [wire EXCEPT
     !.sends = @ + 1,
     !.last = [side |-> side, m |-> m, ret |-> r.ret, handed |-> r.handed,
               sent |-> r.frame # NoFrame, threw |-> r.threw,
               own |-> conn.hasDc /\ pc.dc = "open", peer |-> wire.peerOpen],
     !.frames = IF r.frame # NoFrame
                  THEN Append(@, [id |-> wire.sends + 1, m |-> m, text |-> r.frame])
                  ELSE @]

\* the caller invokes send(m) on the connection
Send(m, out) ==
  /\ wire.sends < MaxSends
  /\ wire' = Sent(SendResult(conn.hasDc, pc.dc, m, out), m, "ts")
  /\ UNCHANGED <<dt, cc, an, fs, client, bt, hasSession, sessType, conn, pc, call, cl, sig, subs, store, sess, builds,
                 msgs>>

\* the Android application invokes sendMessage(text) on its manager
AndroidSend(out) ==
  /\ wire.sends < MaxSends
  /\ wire' = Sent(AndroidSendResult(conn.hasDc, pc.dc, out), "json", "android")
  /\ UNCHANGED <<dt, cc, an, fs, client, bt, hasSession, sessType, conn, pc, call, cl, sig, subs, store, sess, builds,
                 msgs>>

\* the readyState of the data channel moves on between two calls
ChannelAdvances ==
  /\ conn.hasDc
  /\ pc.dc \in {"connecting", "open", "closing"}
  /\ pc' = [pc EXCEPT !.dc = CASE @ = "connecting" -> "open"
                               [] @ = "open" -> "closing"
                               [] OTHER -> "closed"]
  /\ UNCHANGED <<dt, cc, an, fs, client, wire, bt, hasSession, sessType, conn, call, cl, sig, subs, store,
                 sess, builds, msgs>>

\* the other peer's ondatachannel / onopen: its end of the channel opens.
\* Each end announces the channel in a task of its own, in either order.
PeerChannelOpen ==
  /\ Negotiated
  /\ ~wire.peerOpen
  /\ wire' = [wire EXCEPT !.peerOpen = TRUE]
  /\ UNCHANGED <<dt, cc, an, fs, client, bt, hasSession, sessType, conn, pc, call, cl, sig, subs, store, sess, builds,
                 msgs>>

\* channel.onmessage at the peer (lines 421-429): parse, then emit 'message'
\* or log the parse error
OnMessage(f, event) ==
  IF Parse(f.text) = "throw" THEN event
  ELSE [id |-> f.id, m |-> f.m, payload |-> Parse(f.text)]

\* the peer's channel delivers the oldest frame in flight
PeerReceive ==
  /\ wire.peerOpen
  /\ wire.frames # <<>>
  /\ wire' = [wire EXCEPT !.frames = Tail(@),
                          !.event = OnMessage(Head(wire.frames), @)]
  /\ UNCHANGED <<dt, cc, an, fs, client, bt, hasSession, sessType, conn, pc, call, cl, sig, subs, store, sess, builds,
                 msgs>>

\* ------------------------------------------------------------------ close
\* the subscriptions left live after running the unsubscribe functions in U
Unsubscribe(sb, U) ==
  [n \in SubIds |-> [sb[n] EXCEPT !.live = @ \ {k \in Kinds : <<n, k>> \in U}]]

\* WebRTCConnection.close up to `await this.signalingClient.cleanup(peerId)`,
\* with the synchronous head of FirebaseSignalingClient.cleanup
CloseSync(w) ==
  LET map1 == [k \in Kinds |->
                 IF \E n \in SubIds : <<n, k>> \in conn.unsubscribers THEN 0 ELSE sig.map[k]]
      subs1 == Unsubscribe(subs, conn.unsubscribers)
      byMap == {<<map1[k], k>> : k \in {j \in Kinds : map1[j] # 0}}
      request == conn.peerId /\ sig.db
      w1 == [w EXCEPT !.conn.unsubscribers = {}, !.conn.hasDc = FALSE, !.conn.hasPc = FALSE]
  IN /\ pc' = [pc EXCEPT !.dc = IF @ = "none" THEN @ ELSE "closed", !.srdPending = 0]
     /\ call' = [call EXCEPT !.pc = IF @ \in TransportAwaits THEN "abandoned" ELSE @,
                             !.cut = @ \/ call.pc \notin Settled]
     /\ subs' = IF request THEN Unsubscribe(subs1, byMap) ELSE subs1
     /\ sig' = [sig EXCEPT !.map = IF request THEN [k \in Kinds |-> 0] ELSE map1]
     /\ cl' = [cl EXCEPT !.calls = @ + 1,
                         !.pending = IF request THEN @ + 1 ELSE @,
                         !.cleanups = IF request THEN @ + 1 ELSE @,
                         !.threw = IF conn.peerId /\ ~sig.db THEN @ + 1 ELSE @,
                         !.done = IF ~conn.peerId THEN @ + 1 ELSE @]
     /\ LET w2 == IF ~conn.peerId THEN ConnSetState(w1, "closed") ELSE w1
        IN conn' = w2.conn /\ sess' = w2.sess

\* a caller invokes close() on a stand-alone connection
CloseCall ==
  /\ ~hasSession
  /\ cl.calls < MaxClose
  /\ CloseSync(World)
  /\ UNCHANGED <<dt, cc, an, fs, client, wire, bt, hasSession, sessType, store, builds, msgs>>

\* ProofSession.close
SessClose ==
  /\ hasSession
  /\ cl.calls < MaxClose
  /\ CloseSync([conn |-> conn,
                sess |-> SessSetState(sess, "completed")])
  /\ UNCHANGED <<dt, cc, an, fs, client, wire, bt, hasSession, sessType, store, builds, msgs>>

\* the remove() of cleanup settles: close() continues with setState('closed')
CloseResume(ok) ==
  /\ cl.pending > 0
  /\   IF ok
         THEN /\ store' = [store EXCEPT !.offer = FALSE, !.offerIce = 0,
                                        !.answer = FALSE, !.ice = {}]
              /\ cl' = [cl EXCEPT !.pending = @ - 1, !.done = @ + 1]
              /\ LET w == ConnSetState(World, "closed")
                 IN conn' = w.conn /\ sess' = w.sess
         ELSE /\ cl' = [cl EXCEPT !.pending = @ - 1, !.threw = @ + 1]
              /\ UNCHANGED <<store, conn, sess>>
  /\ UNCHANGED <<dt, cc, an, fs, client, wire, bt, hasSession, sessType, pc, call, sig, subs, builds, msgs>>

\* -------------------------------------------------------- ZkPassportClient
Terminal == {"completed", "failed"}

\* mutant of RemoveOnTerminal: the listener forgets the failed state
RemoveOnCompleted(active, i, st) ==
  IF st = "completed" THEN active \ {i} ELSE active

\* the listener createProofSession registers on the session (lines 444-448)
RemoveOnTerminal(active, i, st) ==
  IF st \in Terminal THEN active \ {i} ELSE active

\* Session i of client c takes the fields s1; every setState that changed the
\* state emitted 'state:change' to the listeners still registered.  A step
\* makes at most one change of state, and every handler that comes here emits
\* at least one event.
Emit(c, i, s1) ==
  LET r == c.sessions[i]
  IN [c EXCEPT !.sessions[i].s = s1,
               !.sessions[i].heardLate = @ \/ (r.listening /\ r.torn),
               !.active = IF r.listening /\ s1.state # r.s.state
                            THEN RemoveOnTerminal(@, i, s1.state)
                            ELSE @]

\* createProofSession up to the first await, for the i-th session the client
\* creates: the constructor, the add to the active set, the listener, then ProofSession.initialize and
\* WebRTCConnection.createOffer up to `await this.signalingClient.initialize()`
CreateProofSession(i) ==
  /\ i = Cardinality(client.made) + 1
  /\ \E ok \in BOOLEAN :
       LET sg == SignalingInitialize(client.sig, ok)
           c1 == [client EXCEPT !.made = @ \cup {i}, !.active = @ \cup {i},
                                !.sig = sg,
                                !.sessions[i] = [NoSession EXCEPT !.listening = TRUE,
                                                                  !.init = "pending",
                                                                  !.initOk = ok,
                                                                  !.connState = "initializing"]]
       IN client' = Emit(c1, i, [SessSetState(InitSess, "initializing") EXCEPT !.peerId = TRUE])
  /\ UNCHANGED <<dt, cc, an, fs, wire, bt, hasSession, sessType, conn, pc, call, cl, sig, subs, store, sess,
                 builds, msgs>>

\* connection.createOffer settles and ProofSession.initialize continues: on
\* success setState('waiting_for_mobile'); on failure the connection's catch
\* block (state failed, error event) and the catch of initialize, each of
\* which reaches handleError
OfferSettles(i, ok) ==
  LET r == client.sessions[i]
      e == Err("OFFER_CREATION_FAILED")
  IN /\ r.init = "pending"
     /\ ok => r.initOk
     /\ client' =
          IF ok
            THEN Emit([client EXCEPT !.sessions[i].init = "resolved",
                                     !.sessions[i].initOk = FALSE,
                                     !.sessions[i].connState =
                                        IF r.torn THEN @ ELSE "connecting"],
                      i, InitializeResumes(r.s))
            ELSE Emit([client EXCEPT !.sessions[i].init = "rejected",
                                     !.sessions[i].initOk = FALSE,
                                     !.sessions[i].connState = "failed"],
                      i, HandleError(HandleError(OnConnStateChange(r.s, "failed"), e), e))
     /\ UNCHANGED <<dt, cc, an, fs, wire, bt, hasSession, sessType, conn, pc, call, cl, sig, subs, store, sess,
                    builds, msgs>>

\* onconnectionstatechange of session i's peer connection
SessionTransport(i, st) ==
  LET r == client.sessions[i]
  IN /\ r.init = "resolved"
     /\ ~r.torn
     /\ r.connState \in {"connecting", "connected"}
     /\ r.connState # st
     /\ client' = Emit([client EXCEPT !.sessions[i].connState = st],
                       i, OnConnStateChange(r.s, st))
     /\ UNCHANGED <<dt, cc, an, fs, wire, bt, hasSession, sessType, conn, pc, call, cl, sig, subs, store, sess,
                    builds, msgs>>

\* a message arrives on session i's data channel: handleMobileMessage up to
\* its await of buildTransaction
SessionMessage(i) ==
  LET r == client.sessions[i]
  IN /\ r.connState = "connected"
     /\ ~r.torn
     /\ ~r.build
     /\ client' = Emit([client EXCEPT !.sessions[i].build = TRUE],
                       i, SessSetState(r.s, "proof_received"))
     /\ UNCHANGED <<dt, cc, an, fs, wire, bt, hasSession, sessType, conn, pc, call, cl, sig, subs, store, sess,
                    builds, msgs>>

\* buildTransaction of session i settles
SessionBuildDone(i, ok) ==
  LET r == client.sessions[i]
  IN /\ r.build
     /\ client' = Emit([client EXCEPT !.sessions[i].build = FALSE],
                       i, IF ok THEN TransactionReady(r.s, "query")
                                ELSE HandleError(r.s, Err("BuildFailed")))
     /\ UNCHANGED <<dt, cc, an, fs, wire, bt, hasSession, sessType, conn, pc, call, cl, sig, subs, store, sess,
                    builds, msgs>>

\* mutant of CloseSession: the session is marked completed, its connection is
\* left alone
CloseSessionStateOnly(c, i) ==
  [Emit(c, i, SessSetState(c.sessions[i].s, "completed")) EXCEPT
     !.sessions[i].listening = FALSE]

\* mutant of CloseSession: removeAllListeners() is left out
CloseSessionKeepListeners(c, i) ==
  LET r == c.sessions[i]
  IN [Emit(c, i, SessSetState(r.s, "completed")) EXCEPT
        !.sessions[i].torn = TRUE,
        !.sessions[i].cleanup = @ \/ r.s.peerId]

\* ProofSession.close on session i of client c: connection.close() up to its
\* await, setState('completed'), removeAllListeners()
CloseSession(c, i) ==
  LET r == c.sessions[i]
  IN [Emit(c, i, SessSetState(r.s, "completed")) EXCEPT
        !.sessions[i].torn = TRUE,
        !.sessions[i].cleanup = @ \/ r.s.peerId,
        !.sessions[i].listening = FALSE]

\* the application calls close() on a session it holds
SessionClose(i) ==
  /\ i \in client.made
  /\ ~client.sessions[i].torn
  /\ client' = CloseSession(client, i)
  /\ UNCHANGED <<dt, cc, an, fs, wire, bt, hasSession, sessType, conn, pc, call, cl, sig, subs, store, sess,
                 builds, msgs>>

RECURSIVE CloseAll(_, _)
\* activeSessions.forEach((session) => session.close())
CloseAll(c, todo) ==
  IF todo = {} THEN c
  ELSE LET i == CHOOSE j \in todo : TRUE
       IN CloseAll(CloseSession(c, i), todo \ {i})

\* ZkPassportClient.close
ClientClose ==
  /\ client.closes < MaxClose
  /\ LET c1 == CloseAll(client, client.active)
         c2 == [c1 EXCEPT !.active = {}]
     IN client' = [c2 EXCEPT !.closes = @ + 1,
                             !.sig.closes = @ + 1,
                             !.late = @ \cup {i \in c2.made : ~c2.sessions[i].torn}]
  /\ UNCHANGED <<dt, cc, an, fs, wire, bt, hasSession, sessType, conn, pc, call, cl, sig, subs, store, sess,
                 builds, msgs>>

\* ------------------------------------------------- FirebaseSignalingClient
\* the outcome of an operation and what it leaves in `last`
Done(f, op, result) ==
  [f EXCEPT !.last = [op |-> op, result |-> result, closed |-> f.closed]]

\* the check every operation starts with
NotInitialized == "NotInitialized"

\* a value event is due on every live subscription of the kinds in K
Touch(sub, K) ==
  [i \in 1..MaxSubs |-> IF sub[i].live /\ sub[i].kind \in K
                          THEN [sub[i] EXCEPT !.dirty = TRUE] ELSE sub[i]]

FsFrame ==
  UNCHANGED <<dt, cc, an, client, wire, bt, hasSession, sessType, conn, pc, call, cl, sig, subs, store,
              sess, builds, msgs>>

\* initialize()
FsInitialize(ok) ==
  /\ ~fs.db
  /\ fs' = Done(SignalingInitialize(fs, ok), "initialize", IF ok THEN "ok" ELSE "InitFailed")
  /\ FsFrame

\* mutant of ExpiresAt: the offer is stored without an expiry
ExpiresNever(now) == 0

\* expiresAt: Date.now() + this.config.sessionTTL
ExpiresAt(now) == now + SessionTTL

\* data.expiresAt && Date.now() > data.expiresAt
OfferExpired(offer, now) == offer.expiresAt # 0 /\ now > offer.expiresAt

\* createOffer(p, offer), to the settling of its set()
FsCreateOffer(ok) ==
  /\ fs' = IF ~fs.db THEN Done(fs, "createOffer", NotInitialized)
           ELSE IF ~ok THEN Done(fs, "createOffer", "WriteFailed")
           ELSE Done([fs EXCEPT !.offer = [present |-> TRUE, expiresAt |-> ExpiresAt(fs.now)]],
                     "createOffer", "ok")
  /\ FsFrame

\* another client stores an offer that has no expiresAt field
ForeignOffer ==
  /\ ~fs.offer.present
  /\ fs' = [fs EXCEPT !.offer = [present |-> TRUE, expiresAt |-> 0]]
  /\ FsFrame

\* getOffer(p), to its return or throw
FsGetOffer(readOk) ==
  /\ fs' = IF ~fs.db THEN Done(fs, "getOffer", NotInitialized)
           ELSE Done(fs, "getOffer",
                     GetOfferResult(readOk, fs.offer.present, OfferExpired(fs.offer, fs.now)))
  /\ FsFrame

\* createAnswer(p, answer), to the settling of its set()
FsCreateAnswer ==
  /\ fs' = IF ~fs.db THEN Done(fs, "createAnswer", NotInitialized)
           ELSE Done([fs EXCEPT !.answer = TRUE, !.sub = Touch(@, {"answer"})],
                     "createAnswer", "ok")
  /\ FsFrame

\* getAnswer(p): the answer, or null
FsGetAnswer ==
  /\ fs' = IF ~fs.db THEN Done(fs, "getAnswer", NotInitialized)
           ELSE Done(fs, "getAnswer", IF fs.answer THEN "ok" ELSE "null")
  /\ FsFrame

\* onAnswer(p, cb) / onRemoteIceCandidate(p, cb): onValue registers the
\* subscription, whose first value event is due, and the map entry of the key
\* is overwritten
FsSubscribe(k) ==
  /\ \E i \in 1..MaxSubs :
       /\ fs.sub[i].kind = "none"
       /\ \A j \in 1..(i - 1) : fs.sub[j].kind # "none"
       /\ fs' = IF ~fs.db THEN Done(fs, "on" \o k, NotInitialized)
                ELSE Done([fs EXCEPT !.sub[i] = [kind |-> k, live |-> TRUE, dirty |-> TRUE],
                                     !.map[k] = i],
                          "on" \o k, "ok")
  /\ FsFrame

\* the peer adds a trickle candidate under answer/ice
ForeignIce ==
  /\ ~fs.ice
  /\ fs' = [fs EXCEPT !.ice = TRUE, !.sub = Touch(@, {"ice"})]
  /\ FsFrame

\* the onValue listener of subscription i runs
FsCallback(i) ==
  /\ fs.sub[i].live
  /\ fs.sub[i].dirty
  /\ fs' = [fs EXCEPT !.sub[i].dirty = FALSE]
  /\ FsFrame

\* sessionExists(p)
FsSessionExists ==
  /\ fs' = IF ~fs.db THEN Done(fs, "sessionExists", NotInitialized)
           ELSE Done(fs, "sessionExists",
                     IF fs.offer.present \/ fs.answer \/ fs.ice THEN "true" ELSE "false")
  /\ FsFrame

\* the subscriptions after the unsubscribe functions held in the map ran
Cancel(f) ==
  [i \in 1..MaxSubs |->
     IF \E k \in Kinds : f.map[k] = i
       THEN [f.sub[i] EXCEPT !.live = FALSE, !.dirty = FALSE]
       ELSE f.sub[i]]

\* cleanup(p), to the settling of its remove(): the unsubscribe functions
\* under answer-p and ice-p, then the removal of the session's data, which is
\* a value event for every subscription still live
FsCleanup(ok) ==
  /\ fs' = IF ~fs.db THEN Done(fs, "cleanup", NotInitialized)
           ELSE LET f1 == [fs EXCEPT !.sub = Cancel(fs), !.map = [k \in Kinds |-> 0]]
                IN IF ~ok THEN Done(f1, "cleanup", "RemoveFailed")
                   ELSE Done([f1 EXCEPT !.offer = NoOffer, !.answer = FALSE, !.ice = FALSE,
                                        !.sub = Touch(@, {k \in Kinds :
                                                            \/ k = "answer" /\ fs.answer
                                                            \/ k = "ice" /\ fs.ice})],
                             "cleanup", "ok")
  /\ FsFrame

\* close(): every unsubscribe function in the map, then the map is cleared
FsClose ==
  /\ ~fs.closed
  /\ fs' = Done([fs EXCEPT !.sub = Cancel(fs), !.map = [k \in Kinds |-> 0], !.closed = TRUE],
                "close", "ok")
  /\ FsFrame

\* time passes
Tick ==
  /\ fs.now < MaxTime
  /\ fs' = [fs EXCEPT !.now = @ + 1]
  /\ FsFrame

\* ------------------------------------------------------------------- Next
\* the steps of a negotiation that every specification explores
Negotiation ==
  \/ CallInitDone(TRUE)
  \/ CallCreateSdpDone(TRUE)
  \/ CallSetLocalDone(TRUE)
  \/ GatherComplete
  \/ IceGatheringTimeout
  \/ CallPublishDone(TRUE)
  \/ \E n \in CallIds : AnswerNotify(n)
  \/ SrdDone(TRUE)
  \/ RemoteAnswer
  \/ CloseResume(TRUE)

\* the connection-state and data-channel events of the transport
Transport ==
  \/ TransportState("connected")
  \/ TransportState("failed")
  \/ DataChannelOpen
  \/ DataChannelError

NextConn ==
  \/ CreateOfferCall
  \/ CreateAnswerCall
  \/ CloseCall
  \/ RemoteOffer
  \/ CallGetOfferDone("fresh")
  \/ CallSetRemoteDone(TRUE)
  \/ CallAddIceDone(TRUE)
  \/ DataChannelReceived
  \/ TransportState("disconnected")
  \/ CallInitDone(FALSE)
  \/ CallGetOfferDone("expired")
  \/ CallGetOfferDone("error")
  \/ CallSetRemoteDone(FALSE)
  \/ CallAddIceDone(FALSE)
  \/ CallCreateSdpDone(FALSE)
  \/ CallSetLocalDone(FALSE)
  \/ CallPublishDone(FALSE)
  \/ SrdDone(FALSE)
  \/ CloseResume(FALSE)
  \/ Negotiation
  \/ Transport

NextSess ==
  \/ SessInitialize
  \/ WaitForTransaction
  \/ SessClose
  \/ CallInitDone(FALSE)
  \/ CallPublishDone(FALSE)
  \/ \E m \in MsgKinds : DataChannelMessage(m)
  \/ \E b \in builds : BuildDone(b)
  \/ Negotiation
  \/ Transport

NextIce ==
  \/ CreateOfferCall
  \/ CallInitDone(FALSE)
  \/ CloseCall
  \/ LocalIceCandidate
  \/ RemoteAddIce
  \/ \E n \in CallIds : IceNotify(n)
  \/ Negotiation

\* a stand-alone WebRTCConnection driven by its caller; every step may fail
SpecConn == InitConnOnly /\ [][NextConn]_vars

\* a ProofSession and its connection; the signaling steps may fail
SpecSess == InitSession /\ [][NextSess]_vars

\* an offerer connection with the candidate exchange
SpecIce == InitConnOnly /\ [][NextIce]_vars

NextBuild == BuildTransactionCall

\* the happy path: no step fails, the transport connects, nobody closes
NextHappy ==
  \/ CreateOfferCall
  \/ (store.offer /\ CreateAnswerCall)
  \/ RemoteOffer
  \/ CallInitDone(TRUE)
  \/ CallGetOfferDone("fresh")
  \/ CallSetRemoteDone(TRUE)
  \/ CallAddIceDone(TRUE)
  \/ CallCreateSdpDone(TRUE)
  \/ CallSetLocalDone(TRUE)
  \/ LocalIceCandidate
  \/ GatherComplete
  \/ IceGatheringTimeout
  \/ CallPublishDone(TRUE)
  \/ RemoteAnswer
  \/ \E n \in CallIds : AnswerNotify(n)
  \/ SrdDone(TRUE)
  \/ TransportState("connected")
  \/ DataChannelReceived
  \/ DataChannelOpen
  \/ PeerChannelOpen
  \/ \E m \in Payloads : Send(m, "ok")
  \/ PeerReceive

\* a ZkPassportClient and its sessions
NextClient ==
  \/ \E i \in SessIds : CreateProofSession(i)
  \/ \E i \in SessIds : OfferSettles(i, TRUE)
  \/ \E i \in SessIds : OfferSettles(i, FALSE)
  \/ \E i \in SessIds : SessionTransport(i, "connected")
  \/ \E i \in SessIds : SessionTransport(i, "failed")
  \/ \E i \in SessIds : SessionMessage(i)
  \/ \E i \in SessIds : SessionBuildDone(i, TRUE)
  \/ \E i \in SessIds : SessionBuildDone(i, FALSE)
  \/ \E i \in SessIds : SessionClose(i)
  \/ ClientClose

\* a FirebaseSignalingClient used directly
NextSig ==
  \/ FsInitialize(TRUE)
  \/ FsInitialize(FALSE)
  \/ FsCreateOffer(TRUE)
  \/ FsCreateOffer(FALSE)
  \/ ForeignOffer
  \/ FsGetOffer(TRUE)
  \/ FsGetOffer(FALSE)
  \/ FsCreateAnswer
  \/ FsGetAnswer
  \/ \E k \in Kinds : FsSubscribe(k)
  \/ ForeignIce
  \/ \E i \in 1..MaxSubs : FsCallback(i)
  \/ FsSessionExists
  \/ FsCleanup(TRUE)
  \/ FsCleanup(FALSE)
  \/ FsClose
  \/ Tick

\* send() and sendMessage() taken alone, on a channel in any state
NextSend ==
  \/ \E m \in Payloads, out \in {"ok", "throws"} : Send(m, out)
  \/ \E out \in {"ok", "refused", "throws"} : AndroidSend(out)
  \/ ChannelAdvances

\* buildTransaction on every message shape, session type and contract answer
SpecBuild == InitBuild /\ [][NextBuild]_vars

\* every pending promise settles and every queued event is delivered
SpecHappy == InitConnOnly /\ [][NextHappy]_vars /\ WF_vars(NextHappy)

SpecClient == InitConnOnly /\ [][NextClient]_vars

SpecSig == InitConnOnly /\ [][NextSig]_vars

SpecSend == InitSend /\ [][NextSend]_vars

\* an offerer connection that is closed and used again: createOffer, close and
\* the steps of a negotiation in which every step succeeds
NextReuse ==
  \/ CreateOffer(MaxReuse)
  \/ CloseCall
  \/ CloseResume(TRUE)
  \/ CallInitDone(TRUE)
  \/ CallCreateSdpDone(TRUE)
  \/ CallSetLocalDone(TRUE)
  \/ GatherComplete
  \/ CallPublishDone(TRUE)
  \/ RemoteAnswer
  \/ \E n \in SubIds : AnswerNotify(n)
  \/ SrdDone(TRUE)

SpecReuse == InitConnOnly /\ [][NextReuse]_vars

\* ------------------------------------- calls in progress at the same time
CcFrame ==
  UNCHANGED <<dt, an, fs, client, wire, bt, hasSession, sessType, conn, pc, call, cl, sig, subs,
              store, sess, builds, msgs>>

\* the head of createOffer / createAnswer: the guard on this.peerConnection,
\* then everything up to `await this.signalingClient.initialize()`
CcCall(i, role) ==
  /\ cc.at[i] = "idle"
  /\ \A j \in Callers2 : j < i => cc.at[j] # "idle"
  /\ cc' = [cc EXCEPT !.at[i] = IF cc.hasPc THEN "returned" ELSE "init",
                       !.role[i] = role]
  /\ CcFrame

\* initialize() resumes: createOffer goes on to `new RTCPeerConnection`,
\* createAnswer to `await getOffer`
CcInitDone(i) ==
  /\ cc.at[i] = "init"
  /\ cc' = IF cc.role[i] = "offerer"
             THEN [cc EXCEPT !.at[i] = "createSdp", !.hasPc = TRUE, !.created = @ + 1]
             ELSE [cc EXCEPT !.at[i] = "getOffer"]
  /\ CcFrame

\* getOffer resumes: createAnswer creates its RTCPeerConnection and awaits
\* setRemoteDescription
CcGetOfferDone(i) ==
  /\ cc.at[i] = "getOffer"
  /\ cc' = [cc EXCEPT !.at[i] = "setRemote", !.hasPc = TRUE, !.created = @ + 1]
  /\ CcFrame

\* an await on the transport resumes: setRemoteDescription, createOffer /
\* createAnswer, setLocalDescription, the gathering wait
CcStep(i) ==
  /\ cc.at[i] \in {"setRemote", "createSdp", "setLocal", "gather"}
  /\ cc' = [cc EXCEPT !.at[i] = CASE @ = "setRemote" -> "createSdp"
                                   [] @ = "createSdp" -> "setLocal"
                                   [] @ = "setLocal" -> "gather"
                                   [] OTHER -> "publish"]
  /\ CcFrame

\* signalingClient.createOffer / createAnswer resumes: the call resolves
CcPublishDone(i) ==
  /\ cc.at[i] = "publish"
  /\ cc' = [cc EXCEPT !.at[i] = "resolved", !.published = @ + 1]
  /\ CcFrame

NextConcurrent ==
  \/ \E i \in Callers2 : CcCall(i, "offerer")
  \/ \E i \in Callers2 : CcCall(i, "answerer")
  \/ \E i \in Callers2 : CcInitDone(i)
  \/ \E i \in Callers2 : CcGetOfferDone(i)
  \/ \E i \in Callers2 : CcStep(i)
  \/ \E i \in Callers2 : CcPublishDone(i)

\* one connection, several calls, no step fails
SpecConcurrent == InitConnOnly /\ [][NextConcurrent]_vars

\* ------------------------------------------------- passport date encoding
DateFrame ==
  UNCHANGED <<cc, an, fs, client, wire, bt, hasSession, sessType, conn, pc, call, cl, sig,
              subs, store, sess, builds, msgs>>

\* Number.prototype.toString(radix) of a non-negative integer: its digits
RECURSIVE ToStringRadix(_, _)
ToStringRadix(n, radix) ==
  IF n < radix THEN <<n>> ELSE Append(ToStringRadix(n \div radix, radix), n % radix)

\* the character codes of a numeral: '0'..'9' are 48..57, 'a'..'f' are 97..102
DigitChar(d) == IF d < 10 THEN 48 + d ELSE 87 + d

\* String.prototype.padStart(len, c)
RECURSIVE PadStart(_, _, _)
PadStart(str, len, c) == IF Len(str) >= len THEN str ELSE PadStart(<<c>> \o str, len, c)

\* BigInt(`0x${hex}`): the integer of a base-16 numeral, kept without leading zeros
RECURSIVE BigIntOfHex(_)
BigIntOfHex(hex) ==
  IF Len(hex) > 1 /\ Head(hex) = 0 THEN BigIntOfHex(Tail(hex)) ELSE hex

\* dateStr.split('').map(c => c.charCodeAt(0).toString(16)).join('')
RECURSIVE HexOfChars(_)
HexOfChars(str) ==
  IF str = <<>> THEN <<>> ELSE ToStringRadix(Head(str), 16) \o HexOfChars(Tail(str))

encodePassportDate(dateNum) ==
  LET dateStr == PadStart([i \in 1..Len(ToStringRadix(dateNum, 10)) |->
                             DigitChar(ToStringRadix(dateNum, 10)[i])], 6, 48)
  IN BigIntOfHex(HexOfChars(dateStr))

\* parseInt(pair) without the radix
ParseHexPairDecimal(a, b) == 10 * a + b

\* parseInt(pair, 16) of two hex digits
ParseHexPair(a, b) == 16 * a + b

\* hex.match(/.{2}/g)?.map(pair => String.fromCharCode(parseInt(pair, 16))):
\* the pairs are taken from the left, a trailing single digit is left out
CharsOfHex(hex) ==
  [i \in 1..(Len(hex) \div 2) |-> ParseHexPair(hex[2 * i - 1], hex[2 * i])]

\* parseInt(str): the decimal digits str starts with, NaN (-1) when there is none
RECURSIVE ParseDigits(_, _)
ParseDigits(str, acc) ==
  IF str = <<>> \/ Head(str) < 48 \/ Head(str) > 57 THEN acc
  ELSE ParseDigits(Tail(str), 10 * acc + (Head(str) - 48))

ParseInt(str) ==
  IF str = <<>> \/ Head(str) < 48 \/ Head(str) > 57 THEN -1 ELSE ParseDigits(str, 0)

decodePassportDate(encoded) ==
  LET hex == encoded
      dateStr == IF CharsOfHex(hex) = <<>> THEN [i \in 1..6 |-> 48] ELSE CharsOfHex(hex)
  IN ParseInt(dateStr)

\* the integer whose decimal digits are YYMMDD
YYMMDD(yy, mm, dd) == yy * 10000 + mm * 100 + dd

\* a date is chosen, encoded, and the encoding is decoded
InitDate ==
  /\ hasSession = FALSE
  /\ sessType = "registration"
  /\ bt = NoBuild
  /\ \E yy \in 0..MaxYear, mm \in 0..MaxMonth, dd \in 0..MaxDay :
       dt = [NoDate EXCEPT !.n = YYMMDD(yy, mm, dd)]
  /\ InitCommon

EncodePassportDateCall ==
  /\ dt.at = "new"
  /\ dt' = [dt EXCEPT !.at = "encoded", !.enc = encodePassportDate(dt.n)]
  /\ DateFrame

DecodePassportDateCall ==
  /\ dt.at = "encoded"
  /\ dt' = [dt EXCEPT !.at = "decoded", !.dec = decodePassportDate(dt.enc)]
  /\ DateFrame

NextDate ==
  \/ EncodePassportDateCall
  \/ DecodePassportDateCall

SpecDate == InitDate /\ [][NextDate]_vars


\* ------------------------------------------------- the Android answerer
AnFrame ==
  UNCHANGED <<dt, cc, fs, client, wire, bt, hasSession, sessType, conn, pc, call, cl, sig, subs, store,
              sess, builds, msgs>>

\* WebRTCManager.connectToPeer: initialize, createPeerConnection, and the two
\* listeners; a ValueEventListener fires once with the present value when it
\* is attached
ConnectToPeer ==
  /\ ~an.started
  /\ an' = [an EXCEPT !.started = TRUE, !.offerDue = TRUE, !.iceDue = TRUE]
  /\ AnFrame

\* the desktop offerer writes the offer node (createOffer); the listener on
\* offer and the one on offer/ice below it both get an event
DesktopWritesOffer ==
  /\ an.offer < MaxOfferWrites
  /\ an' = [an EXCEPT !.offer = @ + 1, !.offerIce = {},
                       !.offerDue = an.started, !.iceDue = an.started]
  /\ AnFrame

\* a candidate record is added below offer/ice: a change below the offer node
\* as well
DesktopAddsIce ==
  /\ an.offer > 0
  /\ Cardinality(an.offerIce) < MaxRemoteIce
  /\ an' = [an EXCEPT !.offerIce = @ \cup {Cardinality(an.offerIce) + 1},
                       !.offerDue = an.started, !.iceDue = an.started]
  /\ AnFrame

\* handleOfferAndCreateAnswer: setRemoteDescription(offer), nothing tested
HandleOfferAndCreateAnswer(a) ==
  [a EXCEPT !.srd = @ + 1, !.srdPending = @ + 1]

\* onDataChange of the offer listener, and the collector of listenForOffer:
\* an OfferReceived event for every snapshot that holds an offer
OfferEvent ==
  /\ an.started
  /\ an.offerDue
  /\ an.srd < MaxSrd
  /\ an' = IF an.offer > 0
             THEN [HandleOfferAndCreateAnswer(an) EXCEPT !.offerDue = FALSE]
             ELSE [an EXCEPT !.offerDue = FALSE]
  /\ AnFrame

\* onSetSuccess of setRemoteDescription: createAnswer()
AnswererSrdDone ==
  /\ an.srdPending > 0
  /\ an' = [an EXCEPT !.srdPending = @ - 1, !.created = @ + 1, !.createPending = @ + 1]
  /\ AnFrame

\* onCreateSuccess and onSetSuccess of setLocalDescription: the sendAnswer
\* coroutine is launched
AnswerCreated ==
  /\ an.createPending > 0
  /\ an' = [an EXCEPT !.createPending = @ - 1, !.local = TRUE,
                       !.sent = @ + 1, !.sendPending = @ + 1]
  /\ AnFrame

\* FirebaseSignalingManager.sendAnswer: setValue of the whole answer node,
\* with "ice" an empty list
SendAnswer ==
  /\ an.sendPending > 0
  /\ an' = [an EXCEPT !.sendPending = @ - 1, !.answer = TRUE, !.answerIce = {}]
  /\ AnFrame

\* onIceCandidate of the peer connection observer: a sendIceCandidate
\* coroutine is launched
OnIceCandidate ==
  /\ an.local
  /\ an.gen < MaxLocalIce
  /\ an' = [an EXCEPT !.gen = @ + 1, !.icePending = @ \cup {an.gen + 1}]
  /\ AnFrame

\* FirebaseSignalingManager.sendIceCandidate: push below answer/ice
SendIceCandidate(k) ==
  /\ k \in an.icePending
  /\ an' = [an EXCEPT !.icePending = @ \ {k}, !.answerIce = @ \cup {k},
                       !.written = @ \cup {k}]
  /\ AnFrame

\* onDataChange of the offer/ice listener: an IceCandidateReceived event for
\* every child of the snapshot, and handleIceCandidate for each
IceCandidatesEvent ==
  /\ an.started
  /\ an.iceDue
  /\ an.iceEvents < MaxReplay
  /\ an' = [an EXCEPT !.iceDue = FALSE, !.iceEvents = @ + 1,
                       !.applied = [k \in 1..MaxRemoteIce |->
                                      IF k \in an.offerIce THEN @[k] + 1 ELSE @[k]]]
  /\ AnFrame

NextAndroid ==
  \/ ConnectToPeer
  \/ DesktopWritesOffer
  \/ DesktopAddsIce
  \/ OfferEvent
  \/ AnswererSrdDone
  \/ AnswerCreated
  \/ SendAnswer
  \/ OnIceCandidate
  \/ \E k \in 1..MaxLocalIce : SendIceCandidate(k)
  \/ IceCandidatesEvent

\* the Android answerer against a desktop offerer that writes to the store
SpecAndroid == InitConnOnly /\ [][NextAndroid]_vars

\* ----------------------------------------------------------------- claims
Callers == 1..Len(sess.callers)

\* C1, as stated: whatever answer notifications arrive, setRemoteDescription
\* is invoked at most once on the offerer's transport.
C1_InvokedOnce == pc.srdCalls <= 1

\* C1, amended: the answer callback invokes setRemoteDescription only when no
\* earlier invocation on the transport is still pending or has succeeded; an
\* invocation after the first follows a failed one.
C1_NoSecondWhilePendingOrApplied ==
  [][pc'.srdCalls = pc.srdCalls + 1 => pc.srdPending = 0 /\ pc.srdOk = 0]_vars

\* a failed apply was retried by a later notification, and the retry succeeded
C1_RetriedAfterFailure ==
  /\ conn.role = "offerer"
  /\ pc.srdCalls = 2
  /\ pc.srdOk = 1
  /\ conn.answerProcessed

\* C2: all waitForTransaction() callers of a session hold the same future, and
\* a future that has settled keeps its outcome whatever arrives later.
C2_SameFutureSettledOnce ==
  [][/\ \A i \in 1..Len(sess'.callers) : sess'.callers[i] = sess'.callers[1]
     /\ \A p \in 1..MaxWaiters :
          sess.prom[p].st \in {"resolved", "rejected"} => sess'.prom[p] = sess.prom[p]]_vars

\* two callers share a future that was resolved, and an error arrived afterwards
C2_TwoCallersResolvedThenError ==
  /\ Len(sess.callers) = 2
  /\ sess.prom[sess.callers[1]].st = "resolved"
  /\ sess.state = "failed"

\* C3: when the session is in transaction_ready and has no build in flight,
\* every waitForTransaction() caller holds a future resolved with the
\* transaction the session built.
C3_ReadyResolvesEveryCaller ==
  (sess.state = "transaction_ready" /\ builds = {}) =>
    \A i \in Callers :
      sess.prom[sess.callers[i]] = [st |-> "resolved", val |-> sess.tx]

\* C4: a step that takes the session into failed rejects every pending
\* waitForTransaction() caller with the error the session failed with (the
\* connection's own error when the connection raised one in that step).
C4_RejectedWithTriggeringError ==
  [][(sess.state # "failed" /\ sess'.state = "failed") =>
       \A i \in Callers :
         sess.prom[sess.callers[i]].st = "pending" =>
           sess'.prom[sess.callers[i]] = [st |-> "rejected", val |-> sess'.error]]_vars

\* the message of C5: data.registration and data.zkPoints present, and
\* isUserRegistered answered false
C5_Case ==
  /\ bt.out # "none"
  /\ bt.m.data /\ bt.m.reg /\ bt.m.zk
  /\ bt.bad = "none"
  /\ ~IsUserRegistered(bt.registered, bt.readOk)

\* C5, as stated: in every session such a message never yields the
\* registration-only or the query-only transaction, and yields the combined
\* one when the build succeeds.
C5_CombinedInEverySession ==
  C5_Case => /\ bt.out \notin {"registration", "query"}
             /\ bt.rpcOk => bt.out = "combined"

\* C5, amended: in a session of type age_check or disclosure such a message
\* never yields the registration-only or the query-only transaction, and
\* yields the combined one when the build succeeds.
C5_CombinedInQuerySessions ==
  (C5_Case /\ sessType # "registration") =>
     /\ bt.out \notin {"registration", "query"}
     /\ bt.rpcOk => bt.out = "combined"

\* an age_check session built the combined transaction for an unregistered user
C5_CombinedBuilt ==
  /\ C5_Case
  /\ sessType = "age_check"
  /\ bt.out = "combined"

\* C6: over the life of an onRemoteIceCandidate subscription the callback fires
\* for every candidate record the store has shown it and never fires twice for
\* the same record.
C6_OncePerCandidate ==
  \A n \in CallIds : subs[n].dup = {} /\ subs[n].delivered = subs[n].seen

\* the first record was delivered (and dropped, no remote description yet); a
\* later notification replayed it next to a second record and only the second
\* was delivered
C6_ReplayedListDeliveredOnce ==
  \E n \in CallIds :
    /\ subs[n].delivered = Keys
    /\ store.ice = Keys
    /\ 1 \in pc.dropped
    /\ 2 \in pc.applied

\* C7: once the connection is closed its state never changes.
C7_ClosedIsTerminal == [][conn.state = "closed" => conn'.state = "closed"]_vars

\* C8: a close() call on a connection that an earlier close() already closed
\* raises no error, changes no state and does not request
\* signalingClient.cleanup(peerId) again.
C8_SecondCloseNoEffect ==
  [][(cl'.calls = cl.calls + 1 /\ conn.state = "closed" /\ cl.pending = 0) =>
       /\ cl'.cleanups = cl.cleanups
       /\ cl'.threw = cl.threw
       /\ conn'.state = conn.state]_vars

\* C9: whenever a close() call finishes, by returning or by throwing, the
\* connection is in state closed.
C9_CloseAlwaysEndsClosed ==
  [][(cl'.done + cl'.threw > cl.done + cl.threw) => conn'.state = "closed"]_vars

\* C10: the step that rejects a createOffer / createAnswer call leaves the
\* connection in failed, emits exactly one error event and rejects the call
\* with the error it emitted; a rejected call is not resumed, only a new call
\* by the caller follows it.
C10_FailureIsReportedOnce ==
  [][/\ (call'.pc = "rejected" /\ call.pc # "rejected") =>
          /\ conn'.state = "failed"
          /\ conn'.errors = conn.errors + 1
          /\ call'.error = conn'.lastError
          /\ call'.error.code = CatchCode
     /\ call.pc = "rejected" =>
          \/ call'.pc = "rejected"
          \/ call'.n = call.n + 1]_vars

\* an answerer's createAnswer was rejected with the one error the connection emitted
C10_AnswererRejected ==
  /\ conn.role = "answerer"
  /\ call.pc = "rejected"
  /\ conn.state = "failed"
  /\ conn.errors = 1
  /\ call.error = conn.lastError

\* C11: when getOffer settles for an answerer on which close() was never
\* called and no offer is stored, the createAnswer call is rejected with the
\* ANSWER_CREATION_FAILED error whose cause is the not-found error of getOffer
\* (or the failure of the read itself), the state goes from initializing to
\* failed, no transport object is created and no answer is published.
C11_NoOfferFailsFast ==
  [][(call.pc = "getOffer" /\ call'.pc # "getOffer" /\ ~store.offer /\ cl.calls = 0) =>
       /\ call'.pc = "rejected"
       /\ call'.error.code = "ANSWER_CREATION_FAILED"
       /\ call'.cause \in {"NotFound", "ReadFailed"}
       /\ conn.state = "initializing" /\ conn'.state = "failed"
       /\ ~conn'.hasPc /\ pc' = pc
       /\ ~store'.answer]_vars

\* createAnswer was rejected because no offer was stored
C11_RejectedNotFound ==
  /\ conn.role = "answerer"
  /\ call.pc = "rejected"
  /\ call.cause = "NotFound"
  /\ conn.state = "failed"
  /\ ~conn.hasPc
  /\ cl.calls = 0


\* C12 as stated: on the happy path, once the answering peer's channel is
\* open every send(m) of the offerer returns true, and every message event of
\* the peer carries exactly the m that was sent.
C12_SendAfterPeerOpenDeliversM ==
  /\ wire.last.peer => wire.last.ret
  /\ wire.event # NoEvent => wire.event.payload = wire.event.m

\* C12 amended: on the happy path a createOffer or createAnswer call whose
\* signaling client initializes leads to the connected state; once the
\* sender's own data channel is open, send(m) of a JSON value m returns true
\* and puts one frame on the channel, the peer eventually emits a message
\* event for that frame, and the event carries exactly m.
C12_HappyPath ==
  /\ (call.pc = "init" /\ call.initOk) ~> (conn.state = "connected")
  /\ []((wire.last.own /\ wire.last.m = "json") => (wire.last.ret /\ wire.last.sent))
  /\ [](wire.event.m = "json" => wire.event.payload = "json")
  /\ \A k \in 1..MaxSends :
       (wire.sends = k /\ wire.last.m = "json" /\ wire.last.ret)
         ~> (wire.event.id = k /\ wire.event.payload = "json")

\* both ends connected and a JSON message delivered unchanged
C12_Delivered ==
  /\ conn.role = "offerer"
  /\ conn.state = "connected"
  /\ wire.peerOpen
  /\ wire.last.ret
  /\ wire.event.id = wire.sends
  /\ wire.event.m = "json"
  /\ wire.event.payload = "json"

C13_WaitEndsOnceWithCollected ==
  /\ [](call.pc = "gather" => ENABLED IceGatheringTimeout)
  /\ [][(call.pc = "gather" /\ call'.pc # "gather" /\ conn.hasPc) =>
          /\ call'.pc = "publish"
          /\ call'.bundle = conn.ice
          /\ conn'.ice = conn.ice]_vars
  /\ [][(call.pc = "publish" /\ call'.pc = "resolved" /\ conn.role = "offerer") =>
          (store'.offer /\ store'.offerIce = call.bundle)]_vars
  /\ [][call.pc = "publish" => call'.pc # "gather"]_vars
  /\ [][(call'.pc = "gather" /\ call.pc # "gather") => call.pc = "setLocal"]_vars

\* the timer ended the wait before any candidate; the offer was published
\* with none, a later candidate is not in it, gathering never completed
C13_TimedOutPublished ==
  /\ conn.role = "offerer"
  /\ call.pc = "resolved"
  /\ pc.gather = "gathering"
  /\ store.offer
  /\ store.offerIce = 0
  /\ conn.ice = MaxLocalIce

\* C15: a data-channel message whose type is not a recognized one leaves the
\* session as it was: state, error and transaction future unchanged, no build
\* started.
C15_UnrecognizedIgnored ==
  [][\A m \in Unrecognized : DataChannelMessage(m) => UNCHANGED <<sess, builds>>]_vars

\* C16: no session in the client's active set is in state completed or failed.
C16_ActiveNeverTerminal ==
  \A i \in client.active : client.sessions[i].s.state \notin Terminal

\* a session failed during initialize() and left the set, another one is
\* still active
C16_FailedInInitializeRemoved ==
  \E i, j \in client.made :
    /\ client.sessions[i].init = "rejected"
    /\ client.sessions[i].s.state = "failed"
    /\ i \notin client.active
    /\ j \in client.active

\* C17: ZkPassportClient.close() leaves every session that was active
\* completed, with its connection torn down and the cleanup of its signaling
\* session called, leaves the active set empty, and closes the signaling
\* client after the sessions, once.
C17_CloseClosesEverySession ==
  [][client'.closes = client.closes + 1 =>
       /\ \A i \in client.active :
            /\ client'.sessions[i].s.state = "completed"
            /\ client'.sessions[i].torn
            /\ client'.sessions[i].cleanup
            /\ ~client'.sessions[i].listening
       /\ client'.active = {}
       /\ client'.sig.closes = client.sig.closes + 1
       /\ client'.late \cap client.active = {}]_vars

\* close() ran with two sessions active
C17_ClosedTwoSessions ==
  /\ client.closes = 1
  /\ client.active = {}
  /\ Cardinality(client.made) = 2
  /\ \A i \in client.made :
       /\ client.sessions[i].s.state = "completed"
       /\ client.sessions[i].torn
       /\ client.sessions[i].cleanup
  /\ client.sig.db
  /\ client.sig.closes = 1

SignalingOps ==
  {"createOffer", "getOffer", "createAnswer", "getAnswer", "onanswer", "onice",
   "sessionExists", "cleanup"}

\* C18: an operation called after close() fails, with a closed error or, on
\* a client that was never initialized, with the not-initialized error; and
\* close() leaves no subscription live.
C18_ClosedFailsEverything ==
  /\ (fs.last.closed /\ fs.last.op \in SignalingOps) =>
       fs.last.result \in {"Closed", NotInitialized}
  /\ fs.last.op = "close" => \A i \in 1..MaxSubs : ~fs.sub[i].live

\* C19: cleanup(p) that succeeded leaves no subscription for p live, so that
\* no listener for p runs afterwards.
C19_CleanupCancelsAll ==
  (fs.last.op = "cleanup" /\ fs.last.result = "ok") => \A i \in 1..MaxSubs : ~fs.sub[i].live

\* C20: createOffer stores the expiry publication time + sessionTTL; getOffer
\* on an initialized client whose read succeeds fails with not-found when no
\* offer is stored, fails with expired when the clock is past the stored
\* expiry, and returns the offer otherwise.
C20_GetOfferHonoursExpiry ==
  /\ [][(FsCreateOffer(TRUE) /\ fs.db) =>
          fs'.offer = [present |-> TRUE, expiresAt |-> fs.now + SessionTTL]]_vars
  /\ [][(FsGetOffer(TRUE) /\ fs.db) =>
          fs'.last.result = IF ~fs.offer.present THEN "NotFound"
                            ELSE IF fs.offer.expiresAt # 0 /\ fs.now > fs.offer.expiresAt
                              THEN "Expired"
                            ELSE "ok"]_vars

\* an offer published by createOffer was read after its expiry had passed
C20_ReadAfterExpiry ==
  /\ fs.last.op = "getOffer"
  /\ fs.last.result = "Expired"
  /\ fs.offer.present
  /\ fs.offer.expiresAt > SessionTTL
  /\ fs.now > fs.offer.expiresAt

\* C21: ProofSession.close() tears down the connection, leaves the session
\* completed and without listeners, and no listener registered before close()
\* runs for an event emitted after it.
C21_CloseSilencesListeners ==
  /\ [][\A i \in SessIds :
          (~client.sessions[i].torn /\ client'.sessions[i].torn) =>
            /\ client'.sessions[i].s.state = "completed"
            /\ ~client'.sessions[i].listening]_vars
  /\ [](\A i \in SessIds : ~client.sessions[i].heardLate)

\* a session was closed while its initialize() was pending; the events of the
\* failing createOffer came after close() and reached no listener
C21_EventsAfterClose ==
  \E i \in client.made :
    /\ client.sessions[i].torn
    /\ client.sessions[i].init = "rejected"
    /\ client.sessions[i].s.state = "failed"
    /\ ~client.sessions[i].listening
    /\ ~client.sessions[i].heardLate

\* C22: the session emits mobile:connected only once its connection has
\* reached the connected state.
C22_AnnouncedOnlyWhenConnected ==
  [][(~sess.announced /\ sess'.announced) => conn.state = "connected"]_vars

\* C23: when close() was called while createOffer or createAnswer was
\* suspended at an await, the part of the call that resumes afterwards
\* changes nothing: connection state and events, stored offer and answer,
\* signaling subscriptions.
C23_ResumeAfterCloseInert ==
  [][(call.cut /\ call.pc \notin Settled /\ call'.pc # call.pc /\ cl' = cl) =>
       (conn' = conn /\ store' = store /\ subs' = subs /\ sig' = sig)]_vars

\* C24: every remote ICE candidate the subscription delivers is accepted by the
\* transport, applied or held until the remote description is there; none is
\* rejected and discarded, also when it arrives before the remote description.
C24_NoCandidateDiscarded ==
  conn.hasPc => pc.dropped = {}

\* C25: the session states completed and failed are terminal: once the session
\* is in either, no step (a message, a connection state change, a build that
\* finishes, close) changes the session state again.
C25_TerminalStatesStay ==
  [][sess.state \in {"completed", "failed"} => sess'.state = sess.state]_vars

\* C26: the connection state only moves forward along idle -> initializing ->
\* connecting -> connected, except that connected and disconnected may
\* alternate; from failed only closed may follow.
C26_Rank(st) ==
  CASE st = "idle" -> 0
    [] st = "initializing" -> 1
    [] st = "connecting" -> 2
    [] st \in {"connected", "disconnected"} -> 3
    [] st = "failed" -> 4
    [] OTHER -> 5

C26_StateMovesForward ==
  [][conn.state # "closed" =>
       /\ C26_Rank(conn'.state) >= C26_Rank(conn.state)
       /\ conn.state = "failed" => conn'.state \in {"failed", "closed"}]_vars

\* the answer isUserRegistered gave to the build of a query session
C27_Answer == IsUserRegistered(bt.registered, bt.readOk)

\* a finished build of a message with well-formed data from which a session
\* key can be taken (data.registration or data.identityKey)
C27_Built ==
  /\ bt.out # "none"
  /\ bt.m.data
  /\ bt.bad = "none"
  /\ bt.m.reg \/ bt.m.idk

\* the shape follows the answer: query-only when it is true, combined when it
\* is false and registration data is present, an error when it is false and
\* registration data is absent; no other shape
C27_ShapeFollowsAnswer ==
  /\ bt.out \in Shapes =>
       bt.out = (IF C27_Answer THEN "query" ELSE "combined")
  /\ (~C27_Answer /\ ~bt.m.reg) => bt.out \notin Shapes
  /\ (~C27_Answer /\ bt.m.reg /\ bt.m.zk /\ bt.rpcOk) => bt.out = "combined"
  /\ (C27_Answer /\ bt.m.zk /\ bt.rpcOk) => bt.out = "query"

\* C27, as stated: in every session buildTransaction selects the shape from the
\* answer of isUserRegistered(sessionKey): query-only when true, combined when
\* false with registration data, an error when false without it, and never a
\* shape that does not match the answer.
C27_ShapeByStatusInEverySession ==
  C27_Built => C27_ShapeFollowsAnswer

\* C27, amended: in a session of type age_check or disclosure buildTransaction
\* selects the shape from the answer of isUserRegistered(sessionKey) as above;
\* a session of type registration does not ask and returns the
\* registration-only shape or an error.
C27_ShapeByStatusInQuerySessions ==
  C27_Built =>
    IF sessType = "registration"
      THEN bt.out \in {"registration", "RegistrationMissing"}
      ELSE C27_ShapeFollowsAnswer

\* a disclosure session built the query-only transaction for a registered
\* subject whose message also carried registration data
C27_QueryOnlyForRegistered ==
  /\ C27_Built
  /\ sessType = "disclosure"
  /\ C27_Answer /\ bt.m.reg /\ bt.m.zk
  /\ bt.out = "query"

\* C28: when the contract read that determines the registration status fails,
\* the build of a query session produces no transaction (it ends in an error,
\* which fails the session and rejects its transaction promise).
C28_ReadFailurePropagated ==
  (bt.out # "none" /\ sessType # "registration" /\ bt.m.data /\ ~bt.readOk) =>
     bt.out \notin Shapes

\* C29: a proof message whose registration data has a malformed required field
\* (a hex field that is not hex, a numeric field not convertible to an integer)
\* is rejected: the build ends in an error and no transaction is built.
C29_MalformedRejected ==
  (bt.out # "none" /\ bt.m.data /\ bt.m.reg /\ bt.bad # "none") =>
     bt.out \notin Shapes

\* C30: setRemoteDescription(answer) is invoked only by an offerer whose
\* setLocalDescription(offer) has completed and whose offer is published, and
\* only in signaling state have-local-offer; an answer notification in any
\* other state invokes nothing on the transport and does not take the latch.
C30_AnswerOnlyAfterLocalOffer ==
  /\ [][pc'.srdCalls > pc.srdCalls =>
         /\ conn.role = "offerer"
         /\ conn.hasPc /\ pc.local /\ pc.sig = "have-local-offer"
         /\ store.offer
         /\ call.pc \notin {"init", "createSdp", "setLocal", "gather", "publish"}]_vars
  /\ [][\A n \in SubIds :
          (AnswerNotify(n) /\ ~(conn.hasPc /\ pc.sig = "have-local-offer")) =>
            (pc' = pc /\ conn'.answerProcessed = conn.answerProcessed)]_vars

\* C31: close() reaches closed only after it has run every unsubscribe
\* function, closed the data channel and the transport and requested the
\* signaling cleanup; the state is never closed while a subscription of the
\* connection is still live.
C31_ClosedAfterRelease ==
  /\ [][(conn.state # "closed" /\ conn'.state = "closed") =>
         /\ cl'.calls > 0
         /\ (conn.peerId => cl'.cleanups > 0)]_vars
  /\ [](conn.state = "closed" => \A n \in SubIds : subs[n].live = {})

\* C32: every candidate the offerer's transport generates reaches the
\* signaling store: once the offer is published, the store eventually holds as
\* many of the offerer's candidates as the transport has generated, those
\* generated after the gathering wait ended included.
C32_LocalCandidatesReachStore ==
  [](( conn.role = "offerer" /\ call.pc = "resolved" /\ store.offer) =>
       <>(store.offerIce = conn.ice))

\* C33: an answerer that has published its answer holds a subscription to the
\* remote candidates until close(), so that a candidate the offerer adds after
\* the one-shot read of the offer is still applied.
C33_AnswererSubscribed ==
  (conn.role = "answerer" /\ call.pc = "resolved" /\ conn.hasPc) =>
     \E n \in SubIds : "ice" \in subs[n].live

\* C34: on the Android answerer setRemoteDescription, createAnswer and
\* sendAnswer each run at most once in a connectToPeer session, whatever offer
\* notifications the listener produces.
C34_RemoteDescriptionOnce ==
  an.srd <= 1 /\ an.created <= 1 /\ an.sent <= 1

\* C35: on the Android answerer each offerer candidate is applied with
\* addIceCandidate at most once, also when the store replays the whole list.
C35_CandidateAppliedOnce ==
  \A k \in 1..MaxRemoteIce : an.applied[k] <= 1

\* C36: on the Android answerer the list below answer/ice is append-only: a
\* candidate written by sendIceCandidate stays in the store.
C36_AnswerIceAppendOnly ==
  an.written \subseteq an.answerIce

\* C37: a connection creates at most one transport object and publishes at
\* most one offer or answer, also when a call is made while an earlier one is
\* still suspended before its transport object is created.
C37_OneNegotiation ==
  cc.created <= 1 /\ cc.published <= 1

\* C38: a session that has entered failed has its connection torn down and
\* the cleanup of its signaling data requested at the latest when
\* ZkPassportClient.close() has run.
C38_FailedReleasedByClose ==
  [][client'.closes = client.closes + 1 =>
       \A i \in client.made :
         client.sessions[i].s.state = "failed" =>
           /\ client'.sessions[i].torn
           /\ client'.sessions[i].s.peerId => client'.sessions[i].cleanup]_vars


\* C39: the error of a failed createOffer / createAnswer carries the code of
\* the phase that failed: INIT_FAILED when SignalingClient.initialize()
\* rejected, SIGNALING_FAILED when fetching or publishing through signaling
\* rejected, and OFFER_CREATION_FAILED / ANSWER_CREATION_FAILED otherwise.
C39_PhaseCode(at, role) ==
  CASE at = "init" -> "INIT_FAILED"
    [] at \in {"getOffer", "publish"} -> "SIGNALING_FAILED"
    [] OTHER -> IF role = "offerer" THEN "OFFER_CREATION_FAILED"
                ELSE "ANSWER_CREATION_FAILED"

C39_CauseNamesPhase ==
  [][(call.pc \notin {"idle", "rejected", "resolved"} /\ call'.pc = "rejected") =>
       call'.error.code = C39_PhaseCode(call.pc, conn.role)]_vars


\* C40: decoding the encoding of a YYMMDD integer n in 0..999999 gives n back;
\* in particular 0 is decoded from its encoding as 0.
C40_RoundTrip == dt.at = "decoded" => dt.dec = dt.n

C40_ZeroRoundTrips ==
  /\ dt.at = "decoded" /\ dt.n = 0 /\ dt.dec = 0
  /\ dt.enc = <<3, 0, 3, 0, 3, 0, 3, 0, 3, 0, 3, 0>>

====
